---- MODULE Spec2Model ----
(***************************************************************************)
(* A model of py-jsonapi's schema/field engine and inclusion resolver      *)
(* (src/jsonapi/api.py, src/jsonapi/schema/*.py).                          *)
(*                                                                         *)
(* Each method is modelled from its own body under Python's semantics.     *)
(* The receiver of a method carries the attributes that the source         *)
(* assigns to it (the __init__ bodies and SchemaMeta.__new__); a name or   *)
(* an attribute that no statement of the source binds is unbound, and      *)
(* reading it raises NameError / AttributeError, which ends the call like  *)
(* every other exception.  An exception is recorded as the call's result.  *)
(***************************************************************************)
EXTENDS Integers, Sequences, FiniteSets, TLC

VARIABLES
    \* ---- the resource store seen by the inclusion resolver
    graph,                  \* resource object -> relationship name -> relatives
    \* ---- one call of API.include or API._include
    inc_pc,                 \* position in the call
    inc_call,               \* "none" | "include" | "_include"
    primary,                \* API.include: argument primary
    paths,                  \* API.include: argument paths
    parent,                 \* API._include: argument parent
    path,                   \* API._include: argument path (rebound at line 283)
    included_resources,     \* dict: key -> resource
    included_relationships, \* defaultdict(set): key -> set of relationship names
    fetch_log,              \* the Schema.fetch_include calls made, in order
    inc_result,             \* "none" | "returned" | an exception name
    inc_prev                \* arguments and outcome of the previous finished call

VARIABLES
    \* ---- the schema class ArticleSchema and one resource
    field_args,             \* title = Attribute(writable=..., required=...)
    fvalidator_args,        \* the validators declared for title
    resource,               \* the Article instance: attribute -> value
    crud,                   \* schema.context["crud"]
    \* ---- one call of a Schema / BaseField method
    sch_pc,                 \* position in the call
    sch_call,               \* the method called
    resource_arg,           \* update_resource: argument resource
    doc,                    \* create/update_resource: argument data
    fdata,                  \* field-level calls: argument data
    sp,                     \* argument sp
    context,                \* argument context
    resource_before,        \* the resource when the call started
    sch_calls,              \* the methods invoked by the call, in order
    sch_result              \* how the call ended

schVars == <<field_args, fvalidator_args, resource, crud, sch_pc, sch_call,
             resource_arg, doc, fdata, sp, context, resource_before,
             sch_calls, sch_result>>

VARIABLES
    \* ---- one Integer field and one call of its validate_pre_decode
    int_min,                \* Integer(min=...)
    int_max,                \* Integer(max=...)
    int_validators,         \* the validators registered on the field
    fld_pc,                 \* position in the call
    fld_data,               \* argument data: the wire value
    fld_context,            \* argument context
    fld_result              \* how the call ended

fldVars == <<int_min, int_max, int_validators, fld_pc, fld_data, fld_context,
             fld_result>>

VARIABLES
    \* ---- one String field and one call of its validate_pre_decode
    str_regex_arg,          \* String(regex=...)
    str_validators,         \* the validators registered on the field
    str_regex,              \* self.regex
    str_pc,                 \* position in the construction / the call
    str_data,               \* argument data: the wire value
    str_result              \* how the call ended

strVars == <<str_regex_arg, str_validators, str_regex, str_pc, str_data,
             str_result>>

VARIABLES
    \* ---- one round trip through a scalar field's encode / decode
    cdc_type,               \* the field class
    cdc_dir,                \* "raw": decode(encode(v)); "wire": encode(decode(w))
    cdc_in,                 \* v or w
    cdc_valid,              \* "wire": how validate_pre_decode(w) ended
    cdc_mid,                \* how the first conversion ended
    cdc_out,                \* how the second conversion ended
    cdc_pc                  \* position in the round trip

cdcVars == <<cdc_type, cdc_dir, cdc_in, cdc_valid, cdc_mid, cdc_out, cdc_pc>>

VARIABLES
    \* ---- the API's schema registry and one call of API.ensure_identifier
    schema_by_type,         \* api._schema_by_type: the registered typenames
    schema_by_resource_class, \* api._schema_by_resource_class: class -> typename
    eid_obj,                \* argument obj
    eid_pc,                 \* position in the call
    eid_result              \* how the call ended

eidVars == <<schema_by_type, schema_by_resource_class, eid_obj, eid_pc,
             eid_result>>

VARIABLES
    \* ---- one Schema instance used by the threads that handle requests
    l_context,              \* schema._l.context
    ctx_stack,              \* thread -> its use_context generators, innermost last
    ctx_entered,            \* thread -> it has entered a scope
    ctx_raised,             \* the body of some scope has raised
    ctx_event               \* the last step: thread, kind, and the context it
                            \* read (kind "read") or had saved (other kinds)

ctxVars == <<l_context, ctx_stack, ctx_entered, ctx_raised, ctx_event>>

VARIABLES
    \* ---- the schema classes defined so far
    classes                 \* class name -> its bases, its declared fields and
                            \* the attributes SchemaMeta.__new__ gave it

metaVars == <<classes>>

VARIABLES
    \* ---- one schema with its top-level links, and one call of encode_resource
    enc_links,              \* the names of the schema's top-level Link fields
    request_local,          \* the attributes set on API._REQUEST_LOCAL
    enc_pc,                 \* position in the call
    enc_call,               \* the method called
    enc_resource,           \* argument resource
    enc_fieldset_arg,       \* argument fieldset
    enc_fieldset,           \* the local name fieldset
    enc_result              \* how the call ended

encVars == <<enc_links, request_local, enc_pc, enc_call, enc_resource,
             enc_fieldset_arg, enc_fieldset, enc_result>>

VARIABLES
    \* ---- one relationship field and one call of its validate_pre_decode
    rel_kind,               \* "to_one" (ToOneRelationship) | "to_many"
    rel_dereference,        \* self.dereference
    rel_foreign_types,      \* self.foreign_types
    rel_pc,                 \* position in the call
    rel_data,               \* argument data: the wire value
    rel_result              \* how the call ended

relVars == <<rel_kind, rel_dereference, rel_foreign_types, rel_pc, rel_data,
             rel_result>>

VARIABLES
    \* ---- one field, its registered validators and one validation call
    fvalidators,            \* self.fvalidators
    val_pc,                 \* position in the call
    val_when,               \* "pre-decode" (validate_pre_decode) | "post-decode"
    val_context,            \* argument context
    val_i,                  \* the loop's position in self.fvalidators
    val_log,                \* the validator functions called, in order
    val_result              \* how the call ended

valVars == <<fvalidators, val_pc, val_when, val_context, val_i, val_log,
             val_result>>

VARIABLES
    \* ---- a schema with the relationship author and one relationship call
    rcr_kind,               \* author is a "to_one" | "to_many" relationship
    rcr_writable,           \* author = ...Relationship(writable=...)
    rcr_pc,                 \* position in the call
    rcr_call,               \* update_relationship | add_relationship | remove_relationship
    rcr_relname,            \* argument relname
    rcr_data,               \* argument data
    rcr_calls,              \* the methods invoked by the call, in order
    rcr_result              \* how the call ended

rcrVars == <<rcr_kind, rcr_writable, rcr_pc, rcr_call, rcr_relname, rcr_data,
             rcr_calls, rcr_result>>

VARIABLES
    \* ---- one class statement "class ArticleSchema(Schema): ..."
    cls_body,               \* the keys the class body binds to fields, in order
    cls_pc,                 \* position in SchemaMeta.__new__
    cls_fields,             \* fields_by_key: key -> field object
    cls_attrs,              \* the class attributes __new__ has stored in attrs
    cls_result              \* how the class statement ended

clsVars == <<cls_body, cls_pc, cls_fields, cls_attrs, cls_result>>

VARIABLES
    \* ---- one composite field List(inner) or Dict(inner) and one decode call
    cmp_kind,               \* "List" | "Dict"
    cmp_inner,              \* the type of self.field
    cmp_pc,                 \* position in the call
    cmp_items,              \* argument data: the elements, or the (key, value) items
    cmp_i,                  \* the comprehension's position in the data
    cmp_calls,              \* the calls of self.field.decode: data and pointer token
    cmp_out,                \* the values collected so far
    cmp_result              \* how the call ended

cmpVars == <<cmp_kind, cmp_inner, cmp_pc, cmp_items, cmp_i, cmp_calls,
             cmp_out, cmp_result>>

incVars == <<graph, inc_pc, inc_call, primary, paths, parent, path,
             included_resources, included_relationships, fetch_log,
             inc_result, inc_prev>>

vars == <<incVars, schVars, fldVars, strVars, cdcVars, eidVars, ctxVars, metaVars, encVars, relVars, valVars, rcrVars, clsVars, cmpVars>>

\* What the calls of one component leave alone: the other components.
notInc == <<schVars, fldVars, strVars, cdcVars, eidVars, ctxVars, metaVars, encVars, relVars, valVars, rcrVars, clsVars, cmpVars>>
notSch == <<incVars, fldVars, strVars, cdcVars, eidVars, ctxVars, metaVars, encVars, relVars, valVars, rcrVars, clsVars, cmpVars>>
notFld == <<incVars, schVars, strVars, cdcVars, eidVars, ctxVars, metaVars, encVars, relVars, valVars, rcrVars, clsVars, cmpVars>>
notStr == <<incVars, schVars, fldVars, cdcVars, eidVars, ctxVars, metaVars, encVars, relVars, valVars, rcrVars, clsVars, cmpVars>>
notCdc == <<incVars, schVars, fldVars, strVars, eidVars, ctxVars, metaVars, encVars, relVars, valVars, rcrVars, clsVars, cmpVars>>
notEid == <<incVars, schVars, fldVars, strVars, cdcVars, ctxVars, metaVars, encVars, relVars, valVars, rcrVars, clsVars, cmpVars>>
notCtx == <<incVars, schVars, fldVars, strVars, cdcVars, eidVars, metaVars, encVars, relVars, valVars, rcrVars, clsVars, cmpVars>>
notMeta == <<incVars, schVars, fldVars, strVars, cdcVars, eidVars, ctxVars, encVars, relVars, valVars, rcrVars, clsVars, cmpVars>>
notEnc == <<incVars, schVars, fldVars, strVars, cdcVars, eidVars, ctxVars, metaVars, relVars, valVars, rcrVars, clsVars, cmpVars>>
notRel == <<incVars, schVars, fldVars, strVars, cdcVars, eidVars, ctxVars, metaVars, encVars, valVars, rcrVars, clsVars, cmpVars>>
notVal == <<incVars, schVars, fldVars, strVars, cdcVars, eidVars, ctxVars, metaVars, encVars, relVars, rcrVars, clsVars, cmpVars>>
notRcr == <<incVars, schVars, fldVars, strVars, cdcVars, eidVars, ctxVars, metaVars, encVars, relVars, valVars, clsVars, cmpVars>>
notCls == <<incVars, schVars, fldVars, strVars, cdcVars, eidVars, ctxVars, metaVars, encVars, relVars, valVars, rcrVars, cmpVars>>
notCmp == <<incVars, schVars, fldVars, strVars, cdcVars, eidVars, ctxVars, metaVars, encVars, relVars, valVars, rcrVars, clsVars>>

-----------------------------------------------------------------------------
(* Values *)

None == "None"

\* The empty dict.
EmptyDict == << >>

\* Resource objects.  a and a2 are two distinct objects with one identifier.
Objs == {"a", "a2", "b"}

\* The (type, id) pair of a resource object, what its schema reports, written
\* type/id: identifiers and resource objects are both dict keys, and an
\* identifier never equals a resource object.
IdOf(o) == IF o \in {"a", "a2"} THEN "people/1" ELSE "people/2"

Idents == {IdOf(o) : o \in Objs}

RelNames == {"author", "selfref"}

\* ---- bounds of the inclusion inputs
MaxPrimary == 1
MaxPaths == 2
MaxPathLen == 2

\* Sequences over S of length lo..hi.
SeqsOf(S, lo, hi) == UNION {[1..n -> S] : n \in lo..hi}

PrimaryLists == SeqsOf(Objs, 0, MaxPrimary)
PathSet == SeqsOf(RelNames, 0, MaxPathLen)
PathLists == SeqsOf(PathSet \ {<< >>}, 0, MaxPaths)

\* A resource store: every relationship is empty except the listed ones.
MkGraph(edges) ==
    [o \in Objs |-> [r \in RelNames |->
        IF \E e \in edges : e[1] = o /\ e[2] = r
        THEN (CHOOSE e \in edges : e[1] = o /\ e[2] = r)[3]
        ELSE << >>]]

\* a.selfref -> a
GraphCycle == MkGraph({<<"a", "selfref", <<"a">> >>})
\* b.author -> two objects with one identifier
GraphTwins == MkGraph({<<"b", "author", <<"a", "a2">> >>})
\* a reached from b through two relationship names
GraphTwoNames == MkGraph({<<"b", "author", <<"a">> >>, <<"b", "selfref", <<"a">> >>})
\* a two-cycle b.author -> a, a.author -> b
GraphLoop == MkGraph({<<"b", "author", <<"a">> >>, <<"a", "author", <<"b">> >>})

Graphs == {GraphCycle, GraphTwins, GraphTwoNames, GraphLoop}

\* Containers a caller may hand to API._include: empty, keyed by a resource
\* object, keyed by a resource identifier as line 294 writes it.
CallerTagMaps ==
    {EmptyDict, ("a" :> {"author"}), (IdOf("a") :> {"author"})}

-----------------------------------------------------------------------------
(* Python name resolution in jsonapi/api.py *)

\* Names bound at module level of api.py.
ApiGlobals ==
    {"defaultdict", "Sequence", "json", "logging", "threading", "bson",
     "version", "NotFound", "Error", "ErrorList", "error_to_response",
     "response_builder", "Router", "jsonapi_id_tuple", "Symbol",
     "LOG", "ARG_DEFAULT", "API"}

\* Local names of API.include at line 326.
IncludeLocals ==
    {"self", "primary", "paths", "included_resources", "included_relationships"}

\* Local names of API._include at line 287.
_IncludeLocals ==
    {"self", "parent", "path", "included_resources", "included_relationships",
     "relname"}

\* A name resolves iff it is a local, a module global or a builtin
\* (none of the names read below is a builtin).
Bound(name, locals) == name \in locals \cup ApiGlobals

\* defaultdict(set).__getitem__: a missing key is inserted with set().
DefaultGet(d, k) == IF k \in DOMAIN d THEN d ELSE d @@ (k :> {})

-----------------------------------------------------------------------------
(* API.include / API._include *)

\* No finished call yet.
NoOutcome ==
    [primary |-> << >>, paths |-> << >>, result |-> "none",
     included_resources |-> EmptyDict, included_relationships |-> EmptyDict,
     fetches |-> 0]

IncRest ==
    /\ inc_pc = "idle"
    /\ inc_call = "none"
    /\ primary = << >>
    /\ paths = << >>
    /\ parent = None
    /\ path = << >>
    /\ included_resources = EmptyDict
    /\ included_relationships = EmptyDict
    /\ fetch_log = << >>
    /\ inc_result = "none"
    /\ inc_prev = NoOutcome

IncInit == graph \in Graphs /\ IncRest

\* The resolver at rest, for the specifications of the other components.
IncIdle == graph = GraphCycle /\ IncRest

\* API.include(primary, paths), lines 320-324: the two fresh containers.
include ==
    /\ inc_pc = "idle"
    /\ \E p \in PrimaryLists, ps \in PathLists :
        /\ primary' = p
        /\ paths' = ps
    /\ inc_call' = "include"
    /\ included_resources' = EmptyDict
    /\ included_relationships' = EmptyDict
    /\ fetch_log' = << >>
    /\ inc_pc' = "include_326"
    /\ UNCHANGED <<graph, parent, path, inc_result, inc_prev>>
    /\ UNCHANGED notInc

\* API.include, line 326: "for resource in resources" reads the name
\* resources, which is neither a local nor a global: NameError.
include_326 ==
    /\ inc_pc = "include_326"
    /\ ~Bound("resources", IncludeLocals)
    /\ inc_result' = "NameError"
    /\ inc_pc' = "done"
    /\ UNCHANGED <<graph, inc_call, primary, paths, parent, path,
                   included_resources, included_relationships, fetch_log,
                   inc_prev>>
    /\ UNCHANGED notInc

\* A direct call API._include(parent, path, included_resources,
\* included_relationships) with the caller's containers.
_include ==
    /\ inc_pc = "idle"
    /\ \E o \in Objs, p \in PathSet, tags \in CallerTagMaps :
        /\ parent' = o
        /\ path' = p
        /\ included_relationships' = tags
    /\ included_resources' = EmptyDict
    /\ inc_call' = "_include"
    /\ fetch_log' = << >>
    /\ inc_pc' = "_include_280"
    /\ UNCHANGED <<graph, primary, paths, inc_result, inc_prev>>
    /\ UNCHANGED notInc

\* API._include, lines 280-285: the empty path returns; otherwise relname is
\* split off and looked up in included_relationships[parent], which inserts
\* the key parent when it is missing.
_include_280 ==
    /\ inc_pc = "_include_280"
    /\ IF path = << >>
       THEN /\ inc_result' = "returned"
            /\ inc_pc' = "done"
            /\ UNCHANGED <<path, included_relationships>>
       ELSE LET relname == Head(path)
                tags == DefaultGet(included_relationships, parent)
            IN  /\ path' = Tail(path)
                /\ included_relationships' = tags
                /\ IF relname \in tags[parent]
                   THEN inc_result' = "returned" /\ inc_pc' = "done"
                   ELSE inc_result' = inc_result /\ inc_pc' = "_include_287"
    /\ UNCHANGED <<graph, inc_call, primary, paths, parent,
                   included_resources, fetch_log, inc_prev>>
    /\ UNCHANGED notInc

\* API._include, line 287: "self.get_schema(resource)" reads the name
\* resource, which is neither a local nor a global: NameError.
_include_287 ==
    /\ inc_pc = "_include_287"
    /\ ~Bound("resource", _IncludeLocals)
    /\ inc_result' = "NameError"
    /\ inc_pc' = "done"
    /\ UNCHANGED <<graph, inc_call, primary, paths, parent, path,
                   included_resources, included_relationships, fetch_log,
                   inc_prev>>
    /\ UNCHANGED notInc

\* The caller takes the outcome of a finished API.include call and may call
\* again.
IncludeOutcome ==
    [primary |-> primary, paths |-> paths, result |-> inc_result,
     included_resources |-> included_resources,
     included_relationships |-> included_relationships,
     fetches |-> Len(fetch_log)]

NextCall ==
    /\ inc_pc = "done"
    /\ inc_call = "include"
    /\ inc_prev = NoOutcome
    /\ inc_prev' = IncludeOutcome
    /\ inc_pc' = "idle"
    /\ inc_result' = "none"
    /\ UNCHANGED <<graph, inc_call, primary, paths, parent, path,
                   included_resources, included_relationships, fetch_log>>
    /\ UNCHANGED notInc

IncNext ==
    \/ include
    \/ include_326
    \/ _include
    \/ _include_280
    \/ _include_287
    \/ NextCall

-----------------------------------------------------------------------------
(* Claims about the inclusion resolver *)

IncludeDone == inc_pc = "done" /\ inc_call = "include"

\* C1: resolving the path ['selfref'] for the primary resource a, whose
\* relationship selfref returns a itself, ends by returning an included set
\* that holds exactly one entry, a under a's identifier.
C1_SelfRefIncludedOnce ==
    (/\ IncludeDone
     /\ graph = GraphCycle
     /\ primary = <<"a">>
     /\ paths = << <<"selfref">> >>)
    => /\ inc_result = "returned"
       /\ DOMAIN included_resources = {IdOf("a")}
       /\ included_resources[IdOf("a")] = "a"

C4_TagsAccumulate ==
    (/\ IncludeDone
     /\ graph = GraphTwoNames
     /\ primary = <<"b">>
     /\ paths = << <<"author">>, <<"selfref">> >>)
    => /\ inc_result = "returned"
       /\ IdOf("a") \in DOMAIN included_relationships
       /\ included_relationships[IdOf("a")] = {"author", "selfref"}
       /\ DOMAIN included_relationships \subseteq Idents

\* relname is recorded for the identifier of the resource o.
Recorded(tags, o, relname) ==
    /\ IdOf(o) \in DOMAIN tags
    /\ relname \in tags[IdOf(o)]

\* The Schema.fetch_include calls made for the pair (identifier, relname).
FetchesOf(id, relname) ==
    {i \in 1..Len(fetch_log) :
        IdOf(fetch_log[i][1]) = id /\ fetch_log[i][2] = relname}

-----------------------------------------------------------------------------
(* Python values *)

\* A Python value is tagged with its type, so that values of different types
\* compare unequal, as == does in Python.
Str(s) == [t |-> "str", v |-> s]
Tup(q) == [t |-> "tuple", v |-> q]
Bool(b) == [t |-> "bool", v |-> b]
NoneVal == [t |-> "NoneType", v |-> None]

PyEq(x, y) == x.t = y.t /\ x.v = y.v

\* x in (q[1], ..., q[n])
PyIn(x, q) == \E i \in 1..Len(q) : PyEq(x, q[i])

\* x is True / x is False
PyIs(x, b) == x.t = "bool" /\ x.v = b

\* bool(x) for the values used as conditions below
Truthy(x) ==
    CASE x.t = "NoneType" -> FALSE
      [] x.t = "str" -> x.v # ""
      [] x.t = "bool" -> x.v
      [] OTHER -> TRUE

\* x or y
PyOr(x, y) == IF Truthy(x) THEN x ELSE y

\* A JSON pointer is the sequence of its tokens; NoneSp stands for the Python
\* value None where a pointer is expected.
NoneSp == <<None>>
RootSp == <<"data">>

-----------------------------------------------------------------------------
(* BaseField and the schema class *)

Policies == {"always", "never", "creation", "update"}

\* A validator function registered on a field: when and context as given to
\* BaseField.validator, raises is what the function does when it is called.
ValidatorLists ==
    {<< >>,
     <<[when |-> "pre-decode", context |-> "always", raises |-> "InvalidValue"]>>}

\* BaseField.__init__, lines 130-152.
BaseField_init(name, mapped_key, writable, required) ==
    [key |-> None,
     sp |-> NoneSp,
     name |-> name,
     mapped_key |-> mapped_key,
     writable |-> IF writable = "always"
                  THEN Tup(<<"never", "creation">>)
                  ELSE Str(writable),
     required |-> required,
     fget |-> None,
     fset |-> None,
     fvalidators |-> << >>]

\* BaseField.validator, lines 189-194, for each declared validator in turn.
WithValidators(field, vs) == [field EXCEPT !.fvalidators = field.fvalidators \o vs]

\* SchemaMeta.__new__, lines 124-129 and 172 (_assign_sp, line 47): the
\* declared field gets its key, its defaults and its source pointer.
BindField(key, field) ==
    LET name == IF field.name # "" THEN field.name ELSE key
    IN  [field EXCEPT !.key = key,
                      !.name = name,
                      !.mapped_key = IF @ # "" THEN @ ELSE key,
                      !.sp = <<"attributes", name>>]

\* The field title of ArticleSchema after the class has been defined.
TitleField ==
    BindField("title",
        WithValidators(
            BaseField_init("", "", field_args.writable, field_args.required),
            fvalidator_args))

\* Attributes a Schema instance has: those assigned by SchemaMeta.__new__
\* (lines 116-217), by the class body (lines 245-253) and by __init__
\* (lines 257-263).
SchemaAttrs ==
    {"_fields_by_key", "_japi_attributes", "_japi_relationships",
     "_japi_links", "_japi_meta", "_japi_toplevel", "_fields_by_sp",
     "type", "opts", "resource_class", "api", "_l"}

HasAttr(name) == name \in SchemaAttrs

-----------------------------------------------------------------------------
(* Results of a call *)

Returned(value) == [exc |-> "none", sp |-> NoneSp, detail |-> "", value |-> value]
Raised(exc, ptr, detail) == [exc |-> exc, sp |-> ptr, detail |-> detail, value |-> NoneVal]
NoResult == [exc |-> "pending", sp |-> NoneSp, detail |-> "", value |-> NoneVal]


-----------------------------------------------------------------------------
(* Inputs of the schema calls *)

Ids == {"5", "6"}

\* A value that is not a JSON object, e.g. a list.
NotMapping == [is_mapping |-> FALSE, has_id |-> FALSE, id |-> "", attributes |-> << >>]

\* The JSON API resource objects handed to create_resource / update_resource.
Docs ==
    {NotMapping}
    \cup {[is_mapping |-> TRUE, has_id |-> FALSE, id |-> "", attributes |-> a] :
            a \in {<< >>, ("title" :> Str("Hello"))}}
    \cup {[is_mapping |-> TRUE, has_id |-> TRUE, id |-> i, attributes |-> a] :
            i \in Ids, a \in {<< >>, ("title" :> Str("Hello"))}}

\* Wire values of the member title.
FieldData == {Str("Hello"), Str("Old"), Bool(TRUE), NoneVal}

\* The argument context: the contexts schema.py passes ("create", "update"),
\* the name the field policies use ("creation"), or None.
ContextArgs == {NoneVal, Str("create"), Str("update"), Str("creation")}

TitleSp == <<"data", "attributes", "title">>

-----------------------------------------------------------------------------
(* Field validation *)

\* BaseField.validate_pre_decode, lines 260-268, and validate_post_decode,
\* lines 281-289: the first validator registered for when whose context is
\* "always" or ctx and that raises ends the loop.
BaseField_validate(field, when, ptr, ctx) ==
    LET vs == field.fvalidators
        failing == {i \in 1..Len(vs) :
                        /\ vs[i].when = when
                        /\ PyIn(Str(vs[i].context), <<Str("always"), ctx>>)
                        /\ vs[i].raises # "none"}
    IN  IF failing = {}
        THEN Returned(NoneVal)
        ELSE Raised(vs[CHOOSE i \in failing : \A j \in failing : i <= j].raises,
                    ptr, "validator")

\* Schema._validate_field_pre_decode, lines 456-470.
_validate_field_pre_decode(field, data, ptr, ctxArg) ==
    LET ctx == PyOr(ctxArg, crud)
        writable == PyIn(field.writable, <<Str("always"), ctx>>)
        required == PyIn(Str(field.required), <<Str("always"), ctx>>)
    IN  IF (~writable) /\ ptr # NoneSp
        THEN Raised("ValidationError", ptr, "readonly")
        ELSE IF required /\ PyIs(data, ptr # NoneSp)
        THEN Raised("InvalidValue", ptr, "required")
        ELSE IF ptr # NoneSp
        THEN BaseField_validate(field, "pre-decode", ptr, ctx)
        ELSE Returned(NoneVal)

\* Schema.validate_resource_pre_decode, lines 489-503.  The call at line 503
\* first reads self._japi_id, an attribute nothing assigns, so every call
\* that passes the id checks ends there with AttributeError and lines 505-543
\* are not reached.
validate_resource_pre_decode(data, ptr, ctxArg, expected_id) ==
    LET ctx == PyOr(ctxArg, crud)
    IN  IF ~data.is_mapping
        THEN Raised("InvalidType", ptr, "Must be an object.")
        ELSE IF (Truthy(expected_id) \/ PyEq(ctx, Str("update"))) /\ ~data.has_id
        THEN Raised("InvalidValue", Append(ptr, "id"), "id missing")
        ELSE IF Truthy(expected_id) /\ ~PyEq(Str(data.id), expected_id)
        THEN Raised("Conflict", Append(ptr, "id"), "id mismatch")
        ELSE Raised("AttributeError", NoneSp, "_japi_id")

\* Names bound at module level of schema/schema.py, lines 12-36, 39, 234.
SchemaGlobals ==
    {"__all__", "copy", "collections", "contextlib", "logging",
     "cached_property", "ensure_pointer", "BaseField", "LinksObjectMixin",
     "Link", "Attribute", "Relationship", "ValidationError", "InvalidValue",
     "InvalidType", "Conflict", "logger", "SchemaMeta", "Schema"}

\* The document's value and pointer for the member title, as lines 514-515
\* and 591-592 compute them: None and None when the member is absent.
MemberOf(data, ptr) ==
    IF "title" \in DOMAIN data.attributes
    THEN [data |-> data.attributes["title"],
          sp |-> ptr \o <<"attributes", "title">>]
    ELSE [data |-> NoneVal, sp |-> NoneSp]

\* Schema.decode_resource, lines 585-610: line 585 calls OrderedDict, a name
\* that is neither local nor bound in the module: NameError.  Past it, line
\* 593 hands memo to _decode_field as a fifth positional argument, which
\* its signature (line 548) does not take; with it the memo would hold
\* every field of the schema, present in the document or not.
decode_resource(data, ptr) ==
    IF "OrderedDict" \notin {"self", "data", "sp"} \cup SchemaGlobals
    THEN Raised("NameError", NoneSp, "OrderedDict")
    ELSE Raised("TypeError", NoneSp, "_decode_field")

\* Schema.validate_resource_post_decode, lines 626-630: the loop body reads
\* self._field_by_key, an attribute nothing assigns.
validate_resource_post_decode(memo, ctxArg) ==
    IF memo = << >> THEN Returned(NoneVal)
    ELSE IF ~HasAttr("_field_by_key")
    THEN Raised("AttributeError", NoneSp, "_field_by_key")
    ELSE BaseField_validate(TitleField, "post-decode", memo[1].sp, PyOr(ctxArg, crud))

\* Schema.query_resource, line 863.
query_resource(id) == Raised("NotImplementedError", NoneSp, "")

\* BaseField.set, lines 233-235, with BaseField.default_set, lines 204-206:
\* the result and the resource afterwards.
BaseField_set(field, res, data) ==
    IF PyEq(field.writable, Str("never"))
    THEN [result |-> Raised("AssertionError", NoneSp, ""), resource |-> res]
    ELSE [result |-> Returned(NoneVal),
          resource |-> IF field.mapped_key # ""
                       THEN [res EXCEPT ![field.mapped_key] = data]
                       ELSE res]

\* update_resource with the field's set called ahead of the validation.
update_resource_696_set_first(res, form, resource_id, data, ptr) ==
    LET m == MemberOf(data, ptr)
        st == BaseField_set(TitleField, res, m.data)
        pre == validate_resource_pre_decode(data, ptr, Str("update"), resource_id)
    IN  [result |-> IF st.result.exc # "none" THEN st.result ELSE pre,
         calls |-> <<"set", "validate_resource_pre_decode">>,
         resource |-> st.resource]

\* Schema.update_resource, lines 696-708: the result, the methods invoked
\* in order and the resource afterwards.
update_resource_696(res, form, resource_id, data, ptr) ==
    LET pre == validate_resource_pre_decode(data, ptr, Str("update"), resource_id)
        dec == decode_resource(data, ptr)
        post == validate_resource_post_decode(dec.value, Str("update"))
        qry == query_resource(resource_id)
        st == BaseField_set(TitleField, res, dec.value[1].data)
    IN  IF pre.exc # "none"
        THEN [result |-> pre,
              calls |-> <<"validate_resource_pre_decode">>,
              resource |-> res]
        ELSE IF dec.exc # "none"
        THEN [result |-> dec,
              calls |-> <<"validate_resource_pre_decode", "decode_resource">>,
              resource |-> res]
        ELSE IF post.exc # "none"
        THEN [result |-> post,
              calls |-> <<"validate_resource_pre_decode", "decode_resource",
                          "validate_resource_post_decode">>,
              resource |-> res]
        ELSE IF form # "instance"
        THEN [result |-> qry,
              calls |-> <<"validate_resource_pre_decode", "decode_resource",
                          "validate_resource_post_decode", "query_resource">>,
              resource |-> res]
        ELSE [result |-> st.result,
              calls |-> <<"validate_resource_pre_decode", "decode_resource",
                          "validate_resource_post_decode", "set">>,
              resource |-> st.resource]

-----------------------------------------------------------------------------
(* Schema.update_resource, Schema.create_resource, BaseField.set *)

SchRest ==
    /\ resource = [id |-> Str("5"), title |-> Str("Old")]
    /\ crud = NoneVal
    /\ sch_pc = "idle"
    /\ sch_call = "none"
    /\ resource_arg = [form |-> "none", id |-> ""]
    /\ doc = NotMapping
    /\ fdata = NoneVal
    /\ sp = NoneSp
    /\ context = NoneVal
    /\ resource_before = resource
    /\ sch_calls = << >>
    /\ sch_result = NoResult

SchInit ==
    /\ field_args \in [writable : Policies, required : Policies]
    /\ fvalidator_args \in ValidatorLists
    /\ SchRest

\* The schema at rest, for the specifications of the other components.
SchIdle ==
    /\ field_args = [writable |-> "always", required |-> "never"]
    /\ fvalidator_args = << >>
    /\ SchRest

\* Schema.update_resource(resource, data, sp) is called with the resource
\* instance or with the id of a resource.
update_resource ==
    /\ sch_pc = "idle"
    /\ \E form \in {"instance", "id"}, i \in Ids, d \in Docs :
        /\ resource_arg' = [form |-> form,
                            id |-> IF form = "instance" THEN resource.id.v ELSE i]
        /\ doc' = d
    /\ sp' = RootSp
    /\ sch_call' = "update_resource"
    /\ sch_calls' = <<"update_resource">>
    /\ resource_before' = resource
    /\ sch_result' = NoResult
    /\ sch_pc' = "update_691"
    /\ UNCHANGED <<field_args, fvalidator_args, resource, crud, fdata, context>>
    /\ UNCHANGED notSch

\* update_resource, lines 691-694: for an instance the id comes from
\* Schema.id, whose line 326 reads self._japi_id: AttributeError.
update_691 ==
    /\ sch_pc = "update_691"
    /\ IF resource_arg.form = "instance"
       THEN /\ ~HasAttr("_japi_id")
            /\ sch_calls' = Append(sch_calls, "id")
            /\ sch_result' = Raised("AttributeError", NoneSp, "_japi_id")
            /\ sch_pc' = "done"
       ELSE /\ sch_pc' = "update_696"
            /\ UNCHANGED <<sch_calls, sch_result>>
    /\ UNCHANGED <<field_args, fvalidator_args, resource, crud, sch_call,
                   resource_arg, doc, fdata, sp, context, resource_before>>
    /\ UNCHANGED notSch

\* update_resource, lines 696-708.
update_696 ==
    /\ sch_pc = "update_696"
    /\ LET r == update_resource_696(resource, resource_arg.form,
                                    Str(resource_arg.id), doc, sp)
       IN  /\ sch_result' = r.result
           /\ sch_calls' = sch_calls \o r.calls
           /\ resource' = r.resource
    /\ sch_pc' = "done"
    /\ UNCHANGED <<field_args, fvalidator_args, crud, sch_call,
                   resource_arg, doc, fdata, sp, context, resource_before>>
    /\ UNCHANGED notSch

\* Schema.create_resource(data, sp).
create_resource ==
    /\ sch_pc = "idle"
    /\ \E d \in Docs : doc' = d
    /\ sp' = RootSp
    /\ sch_call' = "create_resource"
    /\ sch_calls' = <<"create_resource">>
    /\ resource_before' = resource
    /\ sch_result' = NoResult
    /\ sch_pc' = "create_655"
    /\ UNCHANGED <<field_args, fvalidator_args, resource, crud, resource_arg,
                   fdata, context>>
    /\ UNCHANGED notSch

\* create_resource, line 655: pre-decode validation, which raises.
create_655 ==
    /\ sch_pc = "create_655"
    /\ LET r == validate_resource_pre_decode(doc, sp, Str("create"), Str(""))
       IN  /\ r.exc # "none"
           /\ sch_result' = r
    /\ sch_calls' = Append(sch_calls, "validate_resource_pre_decode")
    /\ sch_pc' = "done"
    /\ UNCHANGED <<field_args, fvalidator_args, resource, crud, sch_call,
                   resource_arg, doc, fdata, sp, context, resource_before>>
    /\ UNCHANGED notSch

\* Schema._validate_field_pre_decode(title, data, sp, context) with the
\* arguments its callers compute (lines 514-516): the member's pointer and
\* value when the member is in the document, None and None otherwise.
validate_field ==
    /\ sch_pc = "idle"
    /\ \E present \in BOOLEAN, d \in FieldData, c \in ContextArgs :
        /\ fdata' = IF present THEN d ELSE NoneVal
        /\ sp' = IF present THEN TitleSp ELSE NoneSp
        /\ context' = c
    /\ sch_call' = "_validate_field_pre_decode"
    /\ sch_calls' = <<"_validate_field_pre_decode">>
    /\ resource_before' = resource
    /\ sch_result' = NoResult
    /\ sch_pc' = "vfield_456"
    /\ UNCHANGED <<field_args, fvalidator_args, resource, crud, resource_arg, doc>>
    /\ UNCHANGED notSch

validate_field_456 ==
    /\ sch_pc = "vfield_456"
    /\ sch_result' = _validate_field_pre_decode(TitleField, fdata, sp, context)
    /\ sch_pc' = "done"
    /\ UNCHANGED <<field_args, fvalidator_args, resource, crud, sch_call,
                   resource_arg, doc, fdata, sp, context, resource_before,
                   sch_calls>>
    /\ UNCHANGED notSch

\* BaseField.set(schema, resource, data, sp) on the field title.
set ==
    /\ sch_pc = "idle"
    /\ \E d \in FieldData : fdata' = d
    /\ sp' = TitleSp
    /\ sch_call' = "set"
    /\ sch_calls' = <<"set">>
    /\ resource_before' = resource
    /\ sch_result' = NoResult
    /\ sch_pc' = "set_233"
    /\ UNCHANGED <<field_args, fvalidator_args, resource, crud, resource_arg,
                   doc, context>>
    /\ UNCHANGED notSch

\* BaseField.set, lines 233-235, with BaseField.default_set, lines 204-206.
set_233 ==
    /\ sch_pc = "set_233"
    /\ LET r == BaseField_set(TitleField, resource, fdata)
       IN  /\ sch_result' = r.result
           /\ resource' = r.resource
    /\ sch_pc' = "done"
    /\ UNCHANGED <<field_args, fvalidator_args, crud, sch_call, resource_arg,
                   doc, fdata, sp, context, resource_before, sch_calls>>
    /\ UNCHANGED notSch

\* The caller goes on to its next call.
SchReturn ==
    /\ sch_pc = "done"
    /\ sch_pc' = "idle"
    /\ sch_call' = "none"
    /\ resource_arg' = [form |-> "none", id |-> ""]
    /\ doc' = NotMapping
    /\ fdata' = NoneVal
    /\ sp' = NoneSp
    /\ context' = NoneVal
    /\ resource_before' = resource
    /\ sch_calls' = << >>
    /\ sch_result' = NoResult
    /\ UNCHANGED <<field_args, fvalidator_args, resource, crud>>
    /\ UNCHANGED notSch

SchNext ==
    \/ update_resource
    \/ update_691
    \/ update_696
    \/ create_resource
    \/ create_655
    \/ validate_field
    \/ validate_field_456
    \/ set
    \/ set_233
    \/ SchReturn

-----------------------------------------------------------------------------
(* fields.Integer *)

PyInt(n) == [t |-> "int", v |-> n]
\* A float is held in halves: PyFloat(h) is the number h/2.
PyFloat(h) == [t |-> "float", v |-> h]

\* ---- bounds of the Integer inputs
MaxBound == 10
Margin == 1

\* min and max as given to Integer(min=..., max=...): None or an int.
BoundArgs == {NoneVal} \cup {PyInt(n) : n \in 0..MaxBound}

\* Wire values handed to Integer.validate_pre_decode.
IntegerWire ==
    {PyInt(n) : n \in (0 - Margin)..(MaxBound + Margin)}
    \cup {PyFloat(h) : h \in {0 - 2, 1, 2 * MaxBound, 2 * MaxBound + 1, 2 * MaxBound + 2}}
    \cup {Bool(TRUE), Bool(FALSE), Str("7"), NoneVal}

\* isinstance(x, int); bool is a subclass of int.
IsInt(x) == x.t \in {"int", "bool"}

\* isinstance(x, float) and x.is_integer()
IsIntegerFloat(x) == x.t = "float" /\ x.v % 2 = 0

\* The number an int, a bool or an integer-valued float stands for.
NumVal(x) ==
    CASE x.t = "int" -> x.v
      [] x.t = "bool" -> (IF x.v THEN 1 ELSE 0)
      [] x.t = "float" -> x.v \div 2

\* The Integer field after Integer.__init__, lines 111-117 (Attribute.__init__
\* and BaseField.__init__ under it), with its validators registered.
IntegerField ==
    [WithValidators(BaseField_init("count", "count", "always", "never"),
                    int_validators)
     EXCEPT !.key = "count"]

\* Integer.validate_pre_decode with the upper bound exclusive.
Integer_validate_pre_decode_exclusive(field, min, max, data, ptr, ctx) ==
    IF ~IsInt(data) /\ ~IsIntegerFloat(data)
    THEN Raised("InvalidType", ptr, "Must be an integer.")
    ELSE IF min.t # "NoneType" /\ min.v > NumVal(data)
    THEN Raised("InvalidValue", ptr, "min")
    ELSE IF max.t # "NoneType" /\ max.v <= NumVal(data)
    THEN Raised("InvalidValue", ptr, "max")
    ELSE BaseField_validate(field, "pre-decode", ptr, ctx)

\* Integer.validate_pre_decode, lines 121-133.
Integer_validate_pre_decode(field, min, max, data, ptr, ctx) ==
    IF ~IsInt(data) /\ ~IsIntegerFloat(data)
    THEN Raised("InvalidType", ptr, "Must be an integer.")
    ELSE IF min.t # "NoneType" /\ min.v > NumVal(data)
    THEN Raised("InvalidValue", ptr, "min")
    ELSE IF max.t # "NoneType" /\ max.v < NumVal(data)
    THEN Raised("InvalidValue", ptr, "max")
    ELSE BaseField_validate(field, "pre-decode", ptr, ctx)

FldRest ==
    /\ fld_pc = "idle"
    /\ fld_data = NoneVal
    /\ fld_context = NoneVal
    /\ fld_result = NoResult

\* Integer.__init__, line 114: min <= max is asserted when both are given.
Integer_init_assert(min, max) ==
    IF min.t = "NoneType" THEN TRUE
    ELSE IF max.t = "NoneType" THEN TRUE
    ELSE min.v <= max.v

FldInit ==
    /\ int_min \in BoundArgs
    /\ int_max \in BoundArgs
    /\ Integer_init_assert(int_min, int_max)
    /\ int_validators \in ValidatorLists
    /\ FldRest

\* The field at rest, for the specifications of the other components.
FldIdle ==
    /\ int_min = NoneVal
    /\ int_max = NoneVal
    /\ int_validators = << >>
    /\ FldRest

\* Integer.validate_pre_decode(schema, data, sp, context) is called.
Integer_validate ==
    /\ fld_pc = "idle"
    /\ \E d \in IntegerWire, c \in {Str("create"), Str("update")} :
        /\ fld_data' = d
        /\ fld_context' = c
    /\ fld_result' = NoResult
    /\ fld_pc' = "validate_121"
    /\ UNCHANGED <<int_min, int_max, int_validators>>
    /\ UNCHANGED notFld

Integer_validate_121 ==
    /\ fld_pc = "validate_121"
    /\ fld_result' = Integer_validate_pre_decode(
                        IntegerField, int_min, int_max, fld_data,
                        <<"data", "attributes", "count">>, fld_context)
    /\ fld_pc' = "done"
    /\ UNCHANGED <<int_min, int_max, int_validators, fld_data, fld_context>>
    /\ UNCHANGED notFld

\* The caller goes on to its next call.
FldReturn ==
    /\ fld_pc = "done"
    /\ fld_pc' = "idle"
    /\ fld_data' = NoneVal
    /\ fld_context' = NoneVal
    /\ fld_result' = NoResult
    /\ UNCHANGED <<int_min, int_max, int_validators>>
    /\ UNCHANGED notFld

FldNext ==
    \/ Integer_validate
    \/ Integer_validate_121
    \/ FldReturn

-----------------------------------------------------------------------------
(* Claims about Schema.update_resource, create_resource and field validation *)

SchDone(call) == sch_pc = "done" /\ sch_call = call

Invoked(method) == \E i \in 1..Len(sch_calls) : sch_calls[i] = method

\* C5: update_resource for a resource whose id is '5' with a document whose
\* id member is '6' ends with Conflict, and neither decode_resource nor a
\* field's set has been invoked and the resource is as it was.
C5_UpdateIdMismatchConflict ==
    (/\ SchDone("update_resource")
     /\ resource_arg.id = "5"
     /\ doc.is_mapping
     /\ doc.has_id
     /\ doc.id = "6")
    => /\ sch_result.exc = "Conflict"
       /\ ~Invoked("decode_resource")
       /\ ~Invoked("set")
       /\ resource = resource_before

\* C6: create_resource on a document without an id member whose attributes
\* are {title: 'Hello'}, title being writable, returns a new resource whose
\* title is 'Hello'.
C6_CreateWithoutIdSucceeds ==
    (/\ SchDone("create_resource")
     /\ field_args.writable = "always"
     /\ doc.is_mapping
     /\ ~doc.has_id
     /\ DOMAIN doc.attributes = {"title"})
    => /\ sch_result.exc = "none"
       /\ sch_result.value = [title |-> doc.attributes["title"]]

\* C7: pre-decode validation under the CRUD context c of a field whose
\* require-policy is 'always' or c and whose member is absent from the
\* document ends with InvalidValue.
C7_RequiredMissingInvalidValue ==
    (/\ SchDone("_validate_field_pre_decode")
     /\ sp = NoneSp
     /\ context \in {Str("create"), Str("update")}
     /\ field_args.required \in {"always", context.v})
    => sch_result.exc = "InvalidValue"

\* C8: an update document that supplies a value for a field whose write
\* policy is 'never' ends with InvalidOperation at the pointer of the
\* supplied member, /data/attributes/title, and the resource is as it was.
C8_ReadOnlyFieldRejected ==
    (/\ SchDone("update_resource")
     /\ field_args.writable = "never"
     /\ doc.is_mapping
     /\ doc.has_id
     /\ doc.id = resource_arg.id
     /\ "title" \in DOMAIN doc.attributes)
    => /\ sch_result.exc = "InvalidOperation"
       /\ sch_result.sp = TitleSp
       /\ resource = resource_before

\* C9: a field declared with write policy 'always' whose member is in the
\* document is not rejected as read-only by pre-decode validation under the
\* create context.
C9_AlwaysWritableOnCreate ==
    (/\ SchDone("_validate_field_pre_decode")
     /\ field_args.writable = "always"
     /\ sp # NoneSp
     /\ PyEq(context, Str("create")))
    => ~(sch_result.exc = "ValidationError" /\ sch_result.detail = "readonly")

\* The steps of a CRUD call among the methods invoked, in order.
StepsOf(calls) ==
    SelectSeq(calls, LAMBDA c : c \in {"validate_resource_pre_decode",
                                       "decode_resource",
                                       "validate_resource_post_decode", "set"})

\* An update document that passes validation: an object whose id is the
\* resource's, its member title writable on update, no validator failing.
ValidUpdate ==
    /\ SchDone("update_resource")
    /\ doc.is_mapping
    /\ doc.has_id
    /\ doc.id = resource_arg.id
    /\ field_args.writable \in {"always", "update"}
    /\ fvalidator_args = << >>

\* C21: an update_resource call for a valid document that carries the member
\* title runs pre-decode validation, then decoding, then post-decode
\* validation, then the field's set, each once and in this order, and
\* returns; in no call does set precede post-decode validation.
C21_UpdateStepOrder ==
    /\ SchDone("update_resource") =>
        \A i \in 1..Len(sch_calls) : sch_calls[i] = "set" =>
            \E j \in 1..(i - 1) : sch_calls[j] = "validate_resource_post_decode"
    /\ (ValidUpdate /\ "title" \in DOMAIN doc.attributes)
        => /\ sch_result.exc = "none"
           /\ StepsOf(sch_calls) = <<"validate_resource_pre_decode",
                                     "decode_resource",
                                     "validate_resource_post_decode", "set">>

UpdateFailedInStep ==
    /\ SchDone("update_resource")
    /\ sch_result.exc # "none"
    /\ sch_calls[Len(sch_calls)] \in {"validate_resource_pre_decode",
                                      "decode_resource",
                                      "validate_resource_post_decode"}

\* C30: when update_resource has failed in pre-decode validation, in decoding
\* or in post-decode validation, no field's set has been called and the
\* resource is exactly as it was before the call.
C30_NoPartialUpdate ==
    UpdateFailedInStep
    => /\ ~Invoked("set")
       /\ resource = resource_before

\* update_resource has failed in pre-decode validation (the id member is
\* missing) on a document whose member title is valid.
C30_Witness ==
    /\ UpdateFailedInStep
    /\ sch_result.exc = "InvalidValue"
    /\ ~doc.has_id
    /\ "title" \in DOMAIN doc.attributes
    /\ field_args.writable = "always"

-----------------------------------------------------------------------------
(* Claims about fields.Integer *)

\* min <= v <= max, each bound optional.
WithinBounds(v) ==
    /\ (int_min.t = "NoneType" \/ int_min.v <= v)
    /\ (int_max.t = "NoneType" \/ v <= int_max.v)

\* The call ended in the bound check of lines 126-132.
BoundRejected ==
    fld_result.exc = "InvalidValue" /\ fld_result.detail \in {"min", "max"}

\* C10: Integer.validate_pre_decode lets an integer wire value v pass its
\* bound check iff min <= v <= max, both bounds inclusive and each optional,
\* and fails with InvalidValue otherwise; so with min=0 and max=10 the value
\* -1 fails, 10 passes and 11 fails.
C10_IntegerBounds ==
    (fld_pc = "done" /\ (IsInt(fld_data) \/ IsIntegerFloat(fld_data)))
    => /\ WithinBounds(NumVal(fld_data)) <=> ~BoundRejected
       /\ (WithinBounds(NumVal(fld_data)) /\ int_validators = << >>)
            => fld_result.exc = "none"

\* Integer(min=0, max=10) has accepted the wire value 10.
C10_Witness ==
    /\ fld_pc = "done"
    /\ int_min = PyInt(0)
    /\ int_max = PyInt(10)
    /\ fld_data = PyInt(10)
    /\ fld_result.exc = "none"

-----------------------------------------------------------------------------
(* fields.String *)

\* ---- bounds of the String inputs
MaxStrLen == 2
MaxPatLen == 2

Chars == {"a", "b"}

\* The text of a str: the sequence of its characters.
Texts == SeqsOf(Chars, 0, MaxStrLen)

\* A regular expression: a sequence of items, each a character or "." (any
\* character), starred or not.
PatItems == [c : Chars \cup {"."}, star : BOOLEAN]
Patterns == SeqsOf(PatItems, 0, MaxPatLen)

\* re.Pattern.fullmatch(text): the pattern matches the whole text.
RECURSIVE FullMatch(_, _)
FullMatch(p, s) ==
    IF p = << >> THEN s = << >>
    ELSE LET h == Head(p)
             first == s # << >> /\ (h.c = "." \/ Head(s) = h.c)
         IN  IF h.star
             THEN FullMatch(Tail(p), s) \/ (first /\ FullMatch(p, Tail(s)))
             ELSE first /\ FullMatch(Tail(p), Tail(s))

Compiled(p) == [t |-> "Pattern", v |-> p]

\* regex as given to String(regex=...): None (the default) or a pattern text.
RegexArgs == {NoneVal} \cup {Str(p) : p \in Patterns}

\* Wire values handed to String.validate_pre_decode.
StringWire == {Str(s) : s \in Texts} \cup {PyInt(1), NoneVal}

\* re.compile(regex), line 86: TypeError unless regex is a str.
re_compile(regex) ==
    IF regex.t = "str" THEN Returned(Compiled(regex.v))
    ELSE Raised("TypeError", NoneSp, "re.compile")

\* The String field after Attribute.__init__, line 85.
StringField ==
    [WithValidators(BaseField_init("title", "title", "always", "never"),
                    str_validators)
     EXCEPT !.key = "title"]

\* String.validate_pre_decode, lines 90-96.
String_validate_pre_decode(field, regex, data, ptr, ctx) ==
    IF data.t # "str"
    THEN Raised("InvalidType", ptr, "Must be a string.")
    ELSE IF regex.t # "NoneType" /\ FullMatch(regex.v, data.v)
    THEN Raised("InvalidValue", ptr, "regex")
    ELSE BaseField_validate(field, "pre-decode", ptr, ctx)

StrRest ==
    /\ str_regex = NoneVal
    /\ str_pc = "new"
    /\ str_data = NoneVal
    /\ str_result = NoResult

StrInit ==
    /\ str_regex_arg \in RegexArgs
    /\ str_validators \in ValidatorLists
    /\ StrRest

\* The field before its construction, for the specifications of the other
\* components.
StrIdle ==
    /\ str_regex_arg = NoneVal
    /\ str_validators = << >>
    /\ StrRest

\* String.__init__, lines 85-87.
String_init ==
    /\ str_pc = "new"
    /\ LET r == re_compile(str_regex_arg)
       IN  IF r.exc = "none"
           THEN /\ str_regex' = r.value
                /\ str_pc' = "idle"
                /\ str_result' = NoResult
           ELSE /\ str_regex' = str_regex
                /\ str_pc' = "init_raised"
                /\ str_result' = r
    /\ UNCHANGED <<str_regex_arg, str_validators, str_data>>
    /\ UNCHANGED notStr

\* String.validate_pre_decode(schema, data, sp, context) is called.
String_validate ==
    /\ str_pc = "idle"
    /\ \E d \in StringWire : str_data' = d
    /\ str_result' = NoResult
    /\ str_pc' = "validate_90"
    /\ UNCHANGED <<str_regex_arg, str_validators, str_regex>>
    /\ UNCHANGED notStr

String_validate_90 ==
    /\ str_pc = "validate_90"
    /\ str_result' = String_validate_pre_decode(
                        StringField, str_regex, str_data, TitleSp, Str("create"))
    /\ str_pc' = "done"
    /\ UNCHANGED <<str_regex_arg, str_validators, str_regex, str_data>>
    /\ UNCHANGED notStr

\* The caller goes on to its next call.
StrReturn ==
    /\ str_pc = "done"
    /\ str_pc' = "idle"
    /\ str_data' = NoneVal
    /\ str_result' = NoResult
    /\ UNCHANGED <<str_regex_arg, str_validators, str_regex>>
    /\ UNCHANGED notStr

StrNext ==
    \/ String_init
    \/ String_validate
    \/ String_validate_90
    \/ StrReturn

\* C11: pre-decode validation of a String field constructed with a regex
\* lets a string wire value pass its regex check iff the regex matches the
\* whole string and fails with InvalidValue otherwise; a String field can be
\* constructed without a regex (and then accepts every string).
C11_StringRegexFullMatch ==
    /\ (str_pc = "done" /\ str_data.t = "str")
        => (FullMatch(str_regex.v, str_data.v)
            <=> ~(str_result.exc = "InvalidValue" /\ str_result.detail = "regex"))
    /\ str_regex_arg = NoneVal => str_pc # "init_raised"

-----------------------------------------------------------------------------
(* The scalar fields of fields.py: values *)

ScalarTypes ==
    {"Integer", "Float", "Boolean", "String", "Decimal", "Fraction",
     "Complex", "UUID", "DateTime", "TimeDelta"}

\* ---- bounds of the round-trip inputs
MaxNum == 2
MaxId == 1

\* complex(re, im), both parts floats held in halves.
PyComplex(re, im) == [t |-> "complex", v |-> <<re, im>>]
\* decimal.Decimal: coefficient and exponent, sign in the coefficient.
PyDecimal(coeff, exp) == [t |-> "Decimal", v |-> <<coeff, exp>>]
\* fractions.Fraction in lowest terms.
PyFraction(n, d) == [t |-> "Fraction", v |-> <<n, d>>]
\* uuid.UUID with the 128-bit value n.
PyUUID(n) == [t |-> "UUID", v |-> n]
\* datetime.datetime: a day and the seconds into it.
PyDateTime(day, sec) == [t |-> "datetime", v |-> <<day, sec>>]
\* datetime.timedelta, held in half seconds.
PyTimeDelta(h) == [t |-> "timedelta", v |-> h]
\* A JSON object and a JSON array.
PyDict(f) == [t |-> "dict", v |-> f]
PyList(q) == [t |-> "list", v |-> q]

IsNum(x) == x.t \in {"int", "bool", "float"}

\* The number an int, a bool or a float stands for, in halves.
Halves(x) ==
    CASE x.t = "int" -> 2 * x.v
      [] x.t = "bool" -> (IF x.v THEN 2 ELSE 0)
      [] x.t = "float" -> x.v

\* x == y for two values that are not containers: numbers compare by value
\* whatever their types, other values by type and value.
ScalarEq(x, y) ==
    IF IsNum(x) /\ IsNum(y) THEN Halves(x) = Halves(y)
    ELSE x.t = y.t /\ x.v = y.v

\* x == y
PyEquals(x, y) ==
    IF x.t = "dict" /\ y.t = "dict"
    THEN /\ DOMAIN x.v = DOMAIN y.v
         /\ \A k \in DOMAIN x.v : ScalarEq(x.v[k], y.v[k])
    ELSE IF x.t = "list" /\ y.t = "list"
    THEN /\ Len(x.v) = Len(y.v)
         /\ \A i \in 1..Len(x.v) : ScalarEq(x.v[i], y.v[i])
    ELSE IF x.t \in {"dict", "list"} \/ y.t \in {"dict", "list"} THEN FALSE
    ELSE ScalarEq(x, y)

\* int(x)
int(x) ==
    CASE x.t = "int" -> Returned(x)
      [] x.t = "bool" -> Returned(PyInt(IF x.v THEN 1 ELSE 0))
      [] x.t = "float" ->
            Returned(PyInt(IF x.v >= 0 THEN x.v \div 2 ELSE 0 - ((0 - x.v) \div 2)))
      [] x.t = "str" -> Raised("ValueError", NoneSp, "int")
      [] OTHER -> Raised("TypeError", NoneSp, "int")

\* The text of a number as float() reads it: the str "5" (held as text) is
\* the only numeric text among the inputs.
NumericTexts == {"5"}

\* float(x)
float(x) ==
    CASE IsNum(x) -> Returned(PyFloat(Halves(x)))
      [] x.t = "str" ->
            IF x.v \in NumericTexts THEN Returned(PyFloat(10))
            ELSE Raised("ValueError", NoneSp, "float")
      [] OTHER -> Raised("TypeError", NoneSp, "float")

\* decimal.Decimal(text) for the texts among the inputs.
DecimalTexts == {"1", "1.50", "+1", "1E2", "1E+2"}
decimal_Decimal(x) ==
    CASE x.t # "str" -> Raised("TypeError", NoneSp, "Decimal")
      [] x.t = "str" /\ x.v \in {"1", "+1"} -> Returned(PyDecimal(1, 0))
      [] x.t = "str" /\ x.v = "1.50" -> Returned(PyDecimal(150, 0 - 2))
      [] x.t = "str" /\ x.v \in {"1E2", "1E+2"} -> Returned(PyDecimal(1, 2))
      [] OTHER -> Raised("InvalidOperation", NoneSp, "Decimal")

\* str(d) for a decimal.Decimal d.
Decimal_str(d) ==
    CASE d.v = <<1, 0>> -> Str("1")
      [] d.v = <<150, 0 - 2>> -> Str("1.50")
      [] d.v = <<1, 2>> -> Str("1E+2")

\* The text of a UUID: the value n written in hexadecimal, with or without
\* the decorations uuid.UUID(hex=...) strips (lines 379-380), in lower or
\* upper case; digits is the number of hexadecimal digits.
UUIDText(n, deco, upper, digits) ==
    Str([uuid |-> n, deco |-> deco, upper |-> upper, digits |-> digits])
UUIDDecos == {"none", "hyphens", "urn", "braces"}

\* uuid.UUID(hex=text)
uuid_UUID(x) ==
    IF x.v.digits # 32 THEN Raised("ValueError", NoneSp, "UUID")
    ELSE Returned(PyUUID(x.v.uuid))

\* UUID.hex: 32 lower-case hexadecimal digits.
UUID_hex(u) == UUIDText(u.v, "none", FALSE, 32)

\* The text of a date/time: "full" is YYYY-MM-DDTHH:MM:SS, "date" is
\* YYYY-MM-DD, "bad" is no date at all.
DateText(form, day, sec) == Str([form |-> form, day |-> day, sec |-> sec])

\* dateutil.parser.parse(text)
dateutil_parse(x) ==
    CASE x.t # "str" -> Raised("TypeError", NoneSp, "parse")
      [] x.t = "str" /\ x.v.form = "full" -> Returned(PyDateTime(x.v.day, x.v.sec))
      [] x.t = "str" /\ x.v.form = "date" -> Returned(PyDateTime(x.v.day, 0))
      [] OTHER -> Raised("ValueError", NoneSp, "parse")

\* datetime.isoformat()
isoformat(d) == DateText("full", d.v[1], d.v[2])

\* data[i] with an int i: a list has the item or raises IndexError; the keys
\* of a JSON object are strings, so a dict raises KeyError.
Subscript(data, i) ==
    CASE data.t = "list" /\ i < Len(data.v) -> Returned(data.v[i + 1])
      [] data.t = "list" /\ i >= Len(data.v) -> Raised("IndexError", NoneSp, "subscript")
      [] data.t = "dict" -> Raised("KeyError", NoneSp, "subscript")
      [] OTHER -> Raised("TypeError", NoneSp, "subscript")

RECURSIVE Gcd(_, _)
Gcd(a, b) == IF b = 0 THEN a ELSE Gcd(b, a % b)

Abs(n) == IF n < 0 THEN 0 - n ELSE n

\* fractions.Fraction(n, d): lowest terms, the sign in the numerator.
fractions_Fraction(n, d) ==
    IF d = 0 THEN Raised("ZeroDivisionError", NoneSp, "Fraction")
    ELSE LET g == Gcd(Abs(n), Abs(d))
             s == IF d < 0 THEN 0 - 1 ELSE 1
         IN  Returned(PyFraction(s * (n \div g), Abs(d) \div g))

-----------------------------------------------------------------------------
(* The scalar fields of fields.py: validate_pre_decode, decode, encode *)

\* A field constructed with the defaults of BaseField.__init__.
CodecField == BaseField_init("value", "value", "always", "never")

\* The regex of the String field: "a".
CodecRegex == Compiled(<<[c |-> "a", star |-> FALSE]>>)

CodecSp == <<"data", "attributes", "value">>

HasKey(data, k) == k \in DOMAIN data.v

\* <field>.validate_pre_decode(schema, data, sp, context), the field
\* constructed without min, max or version.
Validate(type, data) ==
    LET base == BaseField_validate(CodecField, "pre-decode", CodecSp, Str("create"))
        bad_type == Raised("InvalidType", CodecSp, "type")
        bad_value == Raised("InvalidValue", CodecSp, "value")
    IN  CASE type = "Integer" ->
                Integer_validate_pre_decode(CodecField, NoneVal, NoneVal, data,
                                            CodecSp, Str("create"))
          [] type = "Float" -> IF ~IsNum(data) THEN bad_type ELSE base
          [] type = "Boolean" -> IF data.t # "bool" THEN bad_type ELSE base
          [] type = "String" ->
                String_validate_pre_decode(CodecField, CodecRegex, data,
                                           CodecSp, Str("create"))
          [] type = "Decimal" ->
                IF data.t # "str" THEN bad_type
                ELSE IF decimal_Decimal(data).exc = "InvalidOperation" THEN bad_value
                ELSE base
          [] type = "Fraction" ->
                IF data.t # "dict" THEN bad_type
                ELSE IF ~HasKey(data, "numerator") THEN bad_value
                ELSE IF ~HasKey(data, "denominator") THEN bad_value
                ELSE IF ~IsInt(data.v["numerator"]) THEN bad_value
                ELSE IF ~IsInt(data.v["denominator"]) THEN bad_value
                ELSE IF Halves(data.v["denominator"]) = 0 THEN bad_value
                ELSE base
          [] type = "Complex" ->
                IF data.t # "dict" THEN bad_type
                ELSE IF ~HasKey(data, "real") THEN bad_value
                ELSE IF ~HasKey(data, "imag") THEN bad_value
                ELSE IF ~IsNum(data.v["real"]) THEN bad_value
                ELSE IF ~IsNum(data.v["imag"]) THEN bad_value
                ELSE base
          [] type = "UUID" ->
                IF data.t # "str" THEN bad_type
                ELSE IF uuid_UUID(data).exc = "ValueError" THEN bad_value
                ELSE base
          [] type = "DateTime" ->
                LET r == dateutil_parse(data)
                IN  IF r.exc = "ValueError" THEN bad_value
                    ELSE IF r.exc # "none" THEN r
                    ELSE base
          [] type = "TimeDelta" ->
                LET r == float(data)
                IN  IF r.exc = "TypeError" THEN bad_type
                    ELSE IF r.exc # "none" THEN r
                    ELSE base

\* bool(x)
bool(x) == Bool(IF IsNum(x) THEN Halves(x) # 0 ELSE Truthy(x))

\* <field>.encode(schema, data)
Encode(type, data) ==
    CASE type = "Integer" -> int(data)
      [] type = "Float" -> float(data)
      [] type = "Boolean" -> Returned(bool(data))
      [] type = "String" /\ data.t = "str" -> Returned(data)
      [] type = "Decimal" -> Returned(Decimal_str(data))
      [] type = "Fraction" ->
            Returned(PyDict([numerator |-> PyInt(data.v[1]),
                             denominator |-> PyInt(data.v[2])]))
      [] type = "Complex" ->
            Returned(PyDict([real |-> PyFloat(data.v[1]),
                             imag |-> PyFloat(data.v[2])]))
      [] type = "UUID" -> Returned(UUID_hex(data))
      [] type = "DateTime" -> Returned(isoformat(data))
      [] type = "TimeDelta" -> Returned(PyFloat(data.v))

\* <field>.decode(schema, data, sp)
Decode(type, data) ==
    CASE type = "Integer" -> int(data)
      [] type = "Float" -> float(data)
      [] type \in {"Boolean", "String"} -> Returned(data)
      [] type = "Decimal" -> decimal_Decimal(data)
      [] type = "Fraction" ->
            LET n == Subscript(data, 0)
                d == Subscript(data, 1)
            IN  IF n.exc # "none" THEN n
                ELSE IF d.exc # "none" THEN d
                ELSE IF int(n.value).exc # "none" THEN int(n.value)
                ELSE IF int(d.value).exc # "none" THEN int(d.value)
                ELSE fractions_Fraction(int(n.value).value.v, int(d.value).value.v)
      [] type = "Complex" ->
            Returned(PyComplex(Halves(data.v["real"]), Halves(data.v["imag"])))
      [] type = "UUID" -> uuid_UUID(data)
      [] type = "DateTime" -> dateutil_parse(data)
      [] type = "TimeDelta" ->
            LET r == float(data)
            IN  IF r.exc # "none" THEN r ELSE Returned(PyTimeDelta(r.value.v))

-----------------------------------------------------------------------------
(* The scalar fields of fields.py: round trips *)

Nums == (0 - 1)..MaxNum
HalfNums == (0 - 1)..(2 * MaxNum)

\* The raw values of a field's type.
RawValues(type) ==
    CASE type = "Integer" -> {PyInt(n) : n \in Nums}
      [] type = "Float" -> {PyFloat(h) : h \in HalfNums}
      [] type = "Boolean" -> {Bool(TRUE), Bool(FALSE)}
      [] type = "String" -> {Str(s) : s \in Texts}
      [] type = "Decimal" -> {decimal_Decimal(Str(s)).value : s \in DecimalTexts}
      [] type = "Fraction" ->
            {fractions_Fraction(n, d).value : n \in Nums, d \in 1..MaxNum}
      [] type = "Complex" -> {PyComplex(re, im) : re \in {0, 1, 2 * MaxNum}, im \in {0, 3}}
      [] type = "UUID" -> {PyUUID(n) : n \in 0..MaxId}
      [] type = "DateTime" -> {PyDateTime(d, s) : d \in 0..MaxId, s \in 0..1}
      [] type = "TimeDelta" -> {PyTimeDelta(h) : h \in HalfNums}

NumberWire == {PyInt(n) : n \in Nums} \cup {PyFloat(h) : h \in HalfNums}
                \cup {Bool(TRUE), Str("5"), Str("x"), NoneVal}

\* The wire values handed to a field.
WireValues(type) ==
    CASE type \in {"Integer", "Float", "TimeDelta"} -> NumberWire
      [] type = "Boolean" -> {Bool(TRUE), Bool(FALSE), PyInt(1), NoneVal}
      [] type = "String" -> StringWire
      [] type = "Decimal" ->
            {Str(s) : s \in DecimalTexts \cup {"abc"}} \cup {PyInt(1)}
      [] type = "Fraction" ->
            {PyDict([numerator |-> PyInt(n), denominator |-> PyInt(d)]) :
                n \in Nums, d \in 0..MaxNum}
            \cup {PyDict([numerator |-> PyInt(1)]),
                  PyList(<<PyInt(1), PyInt(2)>>), PyInt(1)}
      [] type = "Complex" ->
            {PyDict([real |-> re, imag |-> im]) :
                re \in {PyInt(1), PyFloat(3)}, im \in {PyInt(0), PyFloat(1), Str("5")}}
            \cup {PyDict([real |-> PyInt(1), imag |-> PyInt(2), unit |-> Str("V")]),
                  PyDict([real |-> PyInt(1)]), PyInt(1)}
      [] type = "UUID" ->
            {UUIDText(n, deco, upper, 32) :
                n \in 0..MaxId, deco \in UUIDDecos, upper \in BOOLEAN}
            \cup {UUIDText(0, "none", FALSE, 4), PyInt(1)}
      [] type = "DateTime" ->
            {DateText("full", d, s) : d \in 0..MaxId, s \in 0..1}
            \cup {DateText("date", d, 0) : d \in 0..MaxId}
            \cup {DateText("bad", 0, 0), PyInt(1)}

CdcRest ==
    /\ cdc_type = "Integer"
    /\ cdc_dir = "raw"
    /\ cdc_in = NoneVal
    /\ cdc_valid = NoResult
    /\ cdc_mid = NoResult
    /\ cdc_out = NoResult
    /\ cdc_pc = "idle"

CdcInit == CdcRest

CdcIdle == CdcRest

\* A raw value is about to be encoded and decoded again.
Codec_raw ==
    /\ cdc_pc = "idle"
    /\ \E type \in ScalarTypes : \E v \in RawValues(type) :
        /\ cdc_type' = type
        /\ cdc_in' = v
    /\ cdc_dir' = "raw"
    /\ cdc_pc' = "encode"
    /\ UNCHANGED <<cdc_valid, cdc_mid, cdc_out>>
    /\ UNCHANGED notCdc

\* A wire value is about to be validated, decoded and encoded again.
Codec_wire ==
    /\ cdc_pc = "idle"
    /\ \E type \in ScalarTypes : \E w \in WireValues(type) :
        /\ cdc_type' = type
        /\ cdc_in' = w
    /\ cdc_dir' = "wire"
    /\ cdc_pc' = "validate"
    /\ UNCHANGED <<cdc_valid, cdc_mid, cdc_out>>
    /\ UNCHANGED notCdc

\* validate_pre_decode(w); a value that fails is not decoded.
Codec_validate ==
    /\ cdc_pc = "validate"
    /\ cdc_valid' = Validate(cdc_type, cdc_in)
    /\ cdc_pc' = IF cdc_valid'.exc = "none" THEN "decode" ELSE "done"
    /\ UNCHANGED <<cdc_type, cdc_dir, cdc_in, cdc_mid, cdc_out>>
    /\ UNCHANGED notCdc

\* encode: of v first, or of decode(w) second.
Codec_encode ==
    /\ cdc_pc = "encode"
    /\ IF cdc_dir = "raw"
       THEN /\ cdc_mid' = Encode(cdc_type, cdc_in)
            /\ cdc_pc' = IF cdc_mid'.exc = "none" THEN "decode" ELSE "done"
            /\ UNCHANGED cdc_out
       ELSE /\ cdc_out' = Encode(cdc_type, cdc_mid.value)
            /\ cdc_pc' = "done"
            /\ UNCHANGED cdc_mid
    /\ UNCHANGED <<cdc_type, cdc_dir, cdc_in, cdc_valid>>
    /\ UNCHANGED notCdc

\* decode: of w first, or of encode(v) second.
Codec_decode ==
    /\ cdc_pc = "decode"
    /\ IF cdc_dir = "wire"
       THEN /\ cdc_mid' = Decode(cdc_type, cdc_in)
            /\ cdc_pc' = IF cdc_mid'.exc = "none" THEN "encode" ELSE "done"
            /\ UNCHANGED cdc_out
       ELSE /\ cdc_out' = Decode(cdc_type, cdc_mid.value)
            /\ cdc_pc' = "done"
            /\ UNCHANGED cdc_mid
    /\ UNCHANGED <<cdc_type, cdc_dir, cdc_in, cdc_valid>>
    /\ UNCHANGED notCdc

\* The next round trip.
CdcReturn ==
    /\ cdc_pc = "done"
    /\ cdc_pc' = "idle"
    /\ cdc_type' = "Integer"
    /\ cdc_dir' = "raw"
    /\ cdc_in' = NoneVal
    /\ cdc_valid' = NoResult
    /\ cdc_mid' = NoResult
    /\ cdc_out' = NoResult
    /\ UNCHANGED notCdc

CdcNext ==
    \/ Codec_raw
    \/ Codec_wire
    \/ Codec_validate
    \/ Codec_encode
    \/ Codec_decode
    \/ CdcReturn

\* C12: for every scalar field type, decode(encode(v)) == v for every raw
\* value v of the field's type, and encode(decode(w)) == w for every wire
\* value w that passes the field's pre-decode validation.
C12_RoundTrip ==
    (cdc_pc = "done" /\ (cdc_dir = "raw" \/ cdc_valid.exc = "none"))
    => /\ cdc_out.exc = "none"
       /\ PyEquals(cdc_out.value, cdc_in)

-----------------------------------------------------------------------------
(* API.add_schema / API.get_schema / API.ensure_identifier *)

\* The schemas of the application: typename and resource class.
TypeNames == {"people", "articles"}
ClassOf(typename) == IF typename = "people" THEN "Person" ELSE "Article"
ResourceClasses == {ClassOf(t) : t \in TypeNames}

\* The ids resources have, as str and as int.
IdTexts == {"42", "7"}
IdValues == {Str(i) : i \in IdTexts} \cup {PyInt(42), PyInt(7)}

\* str(x)
str(x) ==
    CASE x.t = "str" -> x
      [] x.t = "int" /\ x.v = 42 -> Str("42")
      [] x.t = "int" /\ x.v = 7 -> Str("7")

\* A resource object: an instance of a resource class.
Obj(class, id) == [t |-> class, v |-> [id |-> id]]

\* jsonapi_id_tuple(type, id): a named tuple, which compares as its tuple.
jsonapi_id_tuple(type, id) == Tup(<<type, id>>)

\* The representations of the resource (typename, id) a caller may hand in.
Representations(typename, id) ==
    {Tup(<<Str(typename), i>>) : i \in {Str(id)}}
    \cup {PyDict([type |-> Str(typename), id |-> Str(id)]),
          PyDict([type |-> Str(typename), id |-> Str(id),
                  attributes |-> Str("...")]),
          Obj(ClassOf(typename), Str(id))}

\* Values handed to API.ensure_identifier.
IdentifierArgs ==
    UNION {Representations(t, i) : t \in TypeNames, i \in IdTexts}
    \cup {Tup(<<Str(t), i>>) : t \in TypeNames, i \in IdValues}
    \cup {PyList(<<Str(t), i>>) : t \in TypeNames, i \in IdValues}
    \cup {Tup(<<Str("people"), Str("42"), Str("x")>>)}

\* Local names of API.ensure_identifier.
EnsureLocals == {"self", "obj"}

\* isinstance(obj, collections.Sequence) for the values above.
IsSequence(obj) == obj.t \in {"tuple", "list", "str"}

\* API.get_schema(o), lines 158-166, for a resource object o and no default.
get_schema(o) ==
    IF o.t \in DOMAIN schema_by_resource_class
    THEN Returned(Str(schema_by_resource_class[o.t]))
    ELSE Raised("KeyError", NoneSp, "get_schema")

\* Schema.id(resource), lines 326-327.
Schema_id(o) ==
    IF ~HasAttr("_japi_id") THEN Raised("AttributeError", NoneSp, "_japi_id")
    ELSE Returned(str(o.v.id))

\* API.ensure_identifier(obj), lines 267-274.
ensure_identifier(obj) ==
    IF ~Bound("collections", EnsureLocals)
    THEN Raised("NameError", NoneSp, "collections")
    ELSE IF IsSequence(obj)
    THEN IF Len(obj.v) # 2
         THEN Raised("AssertionError", NoneSp, "len(obj) == 2")
         ELSE Returned(jsonapi_id_tuple(str(obj.v[1]), str(obj.v[2])))
    ELSE IF obj.t = "dict"
    THEN Returned(jsonapi_id_tuple(str(obj.v["type"]), str(obj.v["id"])))
    ELSE LET schema == get_schema(obj)
         IN  IF schema.exc # "none" THEN schema
             ELSE IF Schema_id(obj).exc # "none" THEN Schema_id(obj)
             ELSE Returned(jsonapi_id_tuple(schema.value, Schema_id(obj).value))

EidRest ==
    /\ eid_obj = NoneVal
    /\ eid_pc = "idle"
    /\ eid_result = NoResult

\* API.__init__, lines 112-115: both registries are empty.
EidInit ==
    /\ schema_by_type = {}
    /\ schema_by_resource_class = << >>
    /\ EidRest

EidIdle == EidInit

\* API.add_schema(schema, add_handlers=False), lines 192-195.
add_schema ==
    /\ eid_pc = "idle"
    /\ \E t \in TypeNames \ schema_by_type :
        /\ schema_by_type' = schema_by_type \cup {t}
        /\ schema_by_resource_class' = schema_by_resource_class @@ (ClassOf(t) :> t)
    /\ UNCHANGED <<eid_obj, eid_pc, eid_result>>
    /\ UNCHANGED notEid

\* API.ensure_identifier(obj) is called.
ensure_identifier_call ==
    /\ eid_pc = "idle"
    /\ \E o \in IdentifierArgs : eid_obj' = o
    /\ eid_pc' = "ensure_267"
    /\ eid_result' = NoResult
    /\ UNCHANGED <<schema_by_type, schema_by_resource_class>>
    /\ UNCHANGED notEid

ensure_identifier_267 ==
    /\ eid_pc = "ensure_267"
    /\ eid_result' = ensure_identifier(eid_obj)
    /\ eid_pc' = "done"
    /\ UNCHANGED <<schema_by_type, schema_by_resource_class, eid_obj>>
    /\ UNCHANGED notEid

\* The caller goes on to its next call.
EidReturn ==
    /\ eid_pc = "done"
    /\ eid_pc' = "idle"
    /\ eid_obj' = NoneVal
    /\ eid_result' = NoResult
    /\ UNCHANGED <<schema_by_type, schema_by_resource_class>>
    /\ UNCHANGED notEid

EidNext ==
    \/ add_schema
    \/ ensure_identifier_call
    \/ ensure_identifier_267
    \/ EidReturn

\* C13: API.ensure_identifier returns the identifier pair ('people', '42')
\* for each representation of that resource: the two-element sequence, the
\* mapping with type and id (other members ignored) and a resource object
\* whose registered schema has type 'people' and yields the id '42'.
C13_IdentifierStable ==
    (/\ eid_pc = "done"
     /\ "people" \in schema_by_type
     /\ eid_obj \in Representations("people", "42"))
    => /\ eid_result.exc = "none"
       /\ PyEq(eid_result.value, Tup(<<Str("people"), Str("42")>>))

-----------------------------------------------------------------------------
(* Schema.context / Schema.use_context *)

\* The threads that handle requests on the one Schema instance.
Threads == {"A", "B"}

\* ---- bound: the scopes a thread nests
MaxDepth == 2

\* Schema.__init__, lines 263-267.
InitialContext ==
    [encoding |-> None, crud |-> None, included_relationships |-> None]

\* The keyword arguments a thread gives to use_context: one key and its value.
\* A request sets crud in its outer scope and encoding in the scopes nested
\* in it; the two threads write different values.
KArgs(t, depth) ==
    IF depth = 0
    THEN {<<"crud", IF t = "A" THEN "create" ELSE "update">>}
    ELSE {<<"encoding", IF t = "A" THEN "primary" ELSE "included">>}

\* The values a thread writes.
Written(t) == {k[2] : k \in KArgs(t, 0) \cup KArgs(t, 1)}

\* dict.update(kargs)
DictUpdate(d, k) == [d EXCEPT ![k[1]] = k[2]]

NoEvent == [thread |-> None, kind |-> "none", context |-> InitialContext]

CtxInit ==
    /\ l_context = InitialContext
    /\ ctx_stack = [t \in Threads |-> << >>]
    /\ ctx_entered = [t \in Threads |-> FALSE]
    /\ ctx_raised = FALSE
    /\ ctx_event = NoEvent

CtxIdle == CtxInit

Top(t) == ctx_stack[t][Len(ctx_stack[t])]

InBody(t) == ctx_stack[t] # << >> /\ Top(t).pc = "body"

Pop(t) == [ctx_stack EXCEPT ![t] = SubSeq(@, 1, Len(@) - 1)]

\* use_context, line 312: old_context = self._l.context.copy()
use_context_312(t) ==
    /\ Len(ctx_stack[t]) < MaxDepth
    /\ ctx_stack[t] = << >> \/ InBody(t)
    /\ \E k \in KArgs(t, Len(ctx_stack[t])) :
        ctx_stack' = [ctx_stack EXCEPT ![t] =
            Append(@, [old_context |-> l_context, kargs |-> k, pc |-> "313"])]
    /\ ctx_entered' = [ctx_entered EXCEPT ![t] = TRUE]
    /\ ctx_event' = [thread |-> t, kind |-> "copy", context |-> l_context]
    /\ UNCHANGED <<l_context, ctx_raised>>
    /\ UNCHANGED notCtx

\* use_context, lines 313-314: self._l.context.update(kargs); yield
use_context_313(t) ==
    /\ ctx_stack[t] # << >>
    /\ Top(t).pc = "313"
    /\ l_context' = DictUpdate(l_context, Top(t).kargs)
    /\ ctx_stack' = [ctx_stack EXCEPT ![t][Len(ctx_stack[t])].pc = "body"]
    /\ ctx_event' = [thread |-> t, kind |-> "entered",
                     context |-> Top(t).old_context]
    /\ UNCHANGED <<ctx_entered, ctx_raised>>
    /\ UNCHANGED notCtx

\* Schema.context, line 297, read by the body of a scope.
context_get(t) ==
    /\ InBody(t)
    /\ ctx_event' = [thread |-> t, kind |-> "read", context |-> l_context]
    /\ UNCHANGED <<l_context, ctx_stack, ctx_entered, ctx_raised>>
    /\ UNCHANGED notCtx

\* The body completes: the generator resumes after the yield, line 315:
\* self._l.context = old_context
use_context_315(t) ==
    /\ InBody(t)
    /\ l_context' = Top(t).old_context
    /\ ctx_stack' = Pop(t)
    /\ ctx_event' = [thread |-> t, kind |-> "returned",
                     context |-> Top(t).old_context]
    /\ UNCHANGED <<ctx_entered, ctx_raised>>
    /\ UNCHANGED notCtx

\* The body raises: contextlib throws the exception into the generator at
\* the yield of line 314, which is in no try statement, so the generator
\* ends there and line 315 is not executed.
use_context_314_raise(t) ==
    /\ InBody(t)
    /\ ctx_stack' = Pop(t)
    /\ ctx_raised' = TRUE
    /\ ctx_event' = [thread |-> t, kind |-> "raised",
                     context |-> Top(t).old_context]
    /\ UNCHANGED <<l_context, ctx_entered>>
    /\ UNCHANGED notCtx

CtxNext ==
    \/ \E t \in Threads : use_context_312(t)
    \/ \E t \in Threads : use_context_313(t)
    \/ \E t \in Threads : context_get(t)
    \/ \E t \in Threads : use_context_315(t)
    \/ \E t \in Threads : use_context_314_raise(t)

\* Only thread t has used the schema.
Alone(t) == \A u \in Threads \ {t} : ~ctx_entered[u]

\* C14: when a use_context scope ends, whether its body completed or
\* raised, schema.context equals the value it had immediately before the
\* scope was entered; after all nested scopes have exited the context
\* equals the initial context.
C14_ContextRestored ==
    \A t \in Threads : Alone(t) =>
        /\ (ctx_event.thread = t /\ ctx_event.kind \in {"returned", "raised"})
            => l_context = ctx_event.context
        /\ ctx_stack[t] = << >> => l_context = InitialContext

\* C15: when two requests interleave their use_context scopes on one Schema
\* instance, neither reads a context value written by the other, and after
\* both scopes have exited (none by an error) the context equals its value
\* before either scope was entered.
C15_NoLeakAcrossRequests ==
    /\ ctx_event.kind = "read" =>
        \A u \in Threads \ {ctx_event.thread} :
            \A key \in DOMAIN ctx_event.context :
                ctx_event.context[key] \notin Written(u)
    /\ ((\A t \in Threads : ctx_stack[t] = << >>) /\ ~ctx_raised)
        => l_context = InitialContext

-----------------------------------------------------------------------------
(* SchemaMeta.__new__: the fields of a schema class *)

\* ---- bound: the schema classes an application derives from Schema
MaxClasses == 3

DerivedNames == {"S1", "S2", "S3"}
NameOfClass(n) == CASE n = 1 -> "S1" [] n = 2 -> "S2" [] OTHER -> "S3"

\* The keys under which a class body declares fields.
FieldKeys == {"title", "body"}

\* The field object declared under key in the body of class owner; object
\* tells the objects apart: it is the class whose statement created this
\* one, by declaring it or by copying it.
DeclaredField(owner, key) == [owner |-> owner, key |-> key, object |-> owner]

\* The class Schema itself: no bases, no fields (schema.py:234-253).
SchemaClass ==
    [bases |-> << >>, declared |-> << >>,
     _fields_by_key |-> << >>, _japi_attributes |-> << >>]

\* The classes a class inherits from, itself excluded.
RECURSIVE Ancestors(_, _)
Ancestors(cs, name) ==
    UNION {{cs[name].bases[i]} \cup Ancestors(cs, cs[name].bases[i]) :
            i \in 1..Len(cs[name].bases)}

\* The base lists Python accepts for a new class: distinct defined schema
\* classes, none listed before one of its own subclasses.
BaseLists(cs) ==
    {bs \in SeqsOf(DOMAIN cs, 1, 2) :
        /\ \A i, j \in 1..Len(bs) : i # j => bs[i] # bs[j]
        /\ \A i, j \in 1..Len(bs) : i < j => bs[i] \notin Ancestors(cs, bs[j])}

\* Lines 119-121: fields_by_key.update(base._fields_by_key) for the bases
\* in reversed order, so that an earlier base overrides a later one.
RECURSIVE InheritedFields(_, _)
InheritedFields(cs, bs) ==
    IF bs = << >> THEN << >>
    ELSE cs[Head(bs)]._fields_by_key @@ InheritedFields(cs, Tail(bs))

\* copy.deepcopy(fields_by_key), line 122, in the statement of class name:
\* new field objects, equal to the copied ones.
deepcopy(d, name) == [k \in DOMAIN d |-> [d[k] EXCEPT !.object = name]]

\* SchemaMeta.__new__(cls, name, bases, attrs), lines 115-129 and 167-173,
\* for a class body that declares Attribute fields: the class attributes.
SchemaMeta_new_attrs(cs, name, bases, declared) ==
    LET fields_by_key_115 == InheritedFields(cs, bases)
        attrs_fields_by_key == fields_by_key_115
        fields_by_key_122 == deepcopy(fields_by_key_115, name)
        fields_by_key_129 == declared @@ fields_by_key_122
    IN  [bases |-> bases,
         declared |-> declared,
         _fields_by_key |-> attrs_fields_by_key,
         _japi_attributes |-> fields_by_key_129]

MetaInit == classes = ("Schema" :> SchemaClass)

MetaIdle == MetaInit

\* class <name>(<bases>): <declared fields>
SchemaMeta_new ==
    /\ Cardinality(DOMAIN classes) <= MaxClasses
    /\ LET name == NameOfClass(Cardinality(DOMAIN classes))
       IN  \E bases \in BaseLists(classes), keys \in SUBSET FieldKeys :
            classes' = classes @@
                (name :> SchemaMeta_new_attrs(classes, name, bases,
                            [k \in keys |-> DeclaredField(name, k)]))
    /\ UNCHANGED notMeta

MetaNext == SchemaMeta_new

\* The keys a class declares itself or inherits, by the declarations.
RECURSIVE KeysOf(_, _)
KeysOf(cs, name) ==
    DOMAIN cs[name].declared
    \cup UNION {KeysOf(cs, cs[name].bases[i]) : i \in 1..Len(cs[name].bases)}

\* C16: after a derived schema is defined, its _fields_by_key contains
\* exactly the keys inherited from its bases and the keys declared locally,
\* and a key declared locally maps to the locally declared field.
C16_FieldsByKeyMerged ==
    \A name \in DOMAIN classes \ {"Schema"} :
        /\ DOMAIN classes[name]._fields_by_key = KeysOf(classes, name)
        /\ \A k \in DOMAIN classes[name].declared :
            classes[name]._fields_by_key[k] = classes[name].declared[k]

\* C27: after a derived schema is defined, every field it inherits is
\* reachable from its _fields_by_key as a field object of its own, created
\* by copying and shared with no base schema, and the classes defined
\* before are as they were.
C27_DerivedOwnsCopies ==
    /\ [](\A name \in DOMAIN classes \ {"Schema"} :
            \A k \in KeysOf(classes, name) \ DOMAIN classes[name].declared :
                /\ k \in DOMAIN classes[name]._fields_by_key
                /\ classes[name]._fields_by_key[k].object = name)
    /\ [][\A name \in DOMAIN classes : classes'[name] = classes[name]]_vars

-----------------------------------------------------------------------------
(* Schema.encode_resource *)

\* The fields of the schema, by wire name.
AttributeNames == {"title", "body"}
RelationshipNames == {"author"}
LinkNames == {"self", "related"}

\* Attributes an API instance has: those assigned by API.__init__ (api.py
\* lines 88-115) and the members of class API.
ApiAttrs ==
    {"debug", "settings", "router", "jsonapi_object", "_schema_by_type",
     "_schema_by_resource_class", "dump_json", "load_json", "get_schema",
     "get_typenames", "add_schema", "ensure_identifier_object",
     "ensure_identifier", "_include", "include", "_REQUEST_LOCAL",
     "current_request", "request_context", "prepare_request", "handle_request"}

\* fieldset: None or a list of wire names.
FieldsetArgs ==
    {NoneVal} \cup {PyList(f) : f \in SUBSET (AttributeNames \cup RelationshipNames)}

Resources == {"article1", "article2"}

InFieldset(name, fieldset) == fieldset.t = "NoneType" \/ name \in fieldset.v

\* API.current_request, api.py line 341: self._REQUEST_LOCAL.request
current_request ==
    IF "request" \in request_local THEN Returned(Str("request"))
    ELSE Raised("AttributeError", NoneSp, "request")

\* Schema._encode_field(field, resource), lines 338-345: line 344 calls
\* field.get(resource), and BaseField.get takes (schema, resource).
_encode_field(name) == Raised("TypeError", NoneSp, "field.get(resource)")

\* Schema.encode_resource, lines 372-410, given the local fieldset.
encode_resource_372(fieldset, links) ==
    LET attributes == {n \in AttributeNames : InFieldset(n, fieldset)}
        relationships == {n \in RelationshipNames : InFieldset(n, fieldset)}
    IN  IF Schema_id(NoneVal).exc # "none" THEN Schema_id(NoneVal)
        ELSE IF attributes # {} THEN _encode_field(CHOOSE n \in attributes : TRUE)
        ELSE IF relationships # {}
        THEN _encode_field(CHOOSE n \in relationships : TRUE)
        ELSE IF links # {} THEN _encode_field(CHOOSE n \in links : TRUE)
        ELSE IF "resource_uri" \notin ApiAttrs
        THEN Raised("AttributeError", NoneSp, "resource_uri")
        ELSE Returned(PyDict([type |-> Str("articles"),
                              self |-> Str("uri"),
                              links |-> PyDict(<< >>)]))

EncRest ==
    /\ request_local = {}
    /\ enc_pc = "idle"
    /\ enc_call = "none"
    /\ enc_resource = None
    /\ enc_fieldset_arg = NoneVal
    /\ enc_fieldset = NoneVal
    /\ enc_result = NoResult

EncInit ==
    /\ enc_links \in SUBSET LinkNames
    /\ EncRest

EncIdle ==
    /\ enc_links = {}
    /\ EncRest

\* Schema.encode_resource(resource, fieldset=...) is called.
encode_resource ==
    /\ enc_pc = "idle"
    /\ \E res \in Resources, f \in FieldsetArgs :
        /\ enc_resource' = res
        /\ enc_fieldset_arg' = f
        /\ enc_fieldset' = f
    /\ enc_call' = "encode_resource"
    /\ enc_pc' = "encode_370"
    /\ enc_result' = NoResult
    /\ UNCHANGED <<enc_links, request_local>>
    /\ UNCHANGED notEnc

\* Line 370: fieldset = self.api.current_request.japi_fields.get(self.type);
\* the lines after it run when it has not raised.
encode_resource_370 ==
    /\ enc_pc = "encode_370"
    /\ IF current_request.exc # "none"
       THEN /\ enc_result' = current_request
            /\ UNCHANGED enc_fieldset
       ELSE /\ enc_fieldset' = NoneVal
            /\ enc_result' = encode_resource_372(NoneVal, enc_links)
    /\ enc_pc' = "done"
    /\ UNCHANGED <<enc_links, request_local, enc_call, enc_resource,
                   enc_fieldset_arg>>
    /\ UNCHANGED notEnc

\* API.request_context(request), api.py lines 351-354: line 354 reads
\* self._REQUEST_LOCAL.request.
request_context ==
    /\ enc_pc = "idle"
    /\ enc_call' = "request_context"
    /\ enc_result' = current_request
    /\ enc_pc' = "done"
    /\ UNCHANGED <<enc_links, request_local, enc_resource, enc_fieldset_arg,
                   enc_fieldset>>
    /\ UNCHANGED notEnc

\* The caller goes on to its next call.
EncReturn ==
    /\ enc_pc = "done"
    /\ enc_pc' = "idle"
    /\ enc_call' = "none"
    /\ enc_resource' = None
    /\ enc_fieldset_arg' = NoneVal
    /\ enc_fieldset' = NoneVal
    /\ enc_result' = NoResult
    /\ UNCHANGED <<enc_links, request_local>>
    /\ UNCHANGED notEnc

EncNext ==
    \/ encode_resource
    \/ encode_resource_370
    \/ request_context
    \/ EncReturn

EncodeDone == enc_pc = "done" /\ enc_call = "encode_resource"

\* C17: the resource object returned by Schema.encode_resource has a links
\* object with a member self.
C17_LinksSelfEmitted ==
    EncodeDone
    => /\ enc_result.exc = "none"
       /\ "links" \in DOMAIN enc_result.value.v
       /\ "self" \in DOMAIN enc_result.value.v["links"].v

\* C18: Schema.encode_resource called with a fieldset F returns a resource
\* object whose attributes and relationships are exactly the fields whose
\* wire name is in F (all when F is None), the member being absent when no
\* field of the group is left.
C18_FieldsetFilter ==
    EncodeDone
    => /\ enc_result.exc = "none"
       /\ LET d == enc_result.value.v
              emitted(member) ==
                IF member \in DOMAIN d THEN DOMAIN d[member].v ELSE {}
          IN  /\ emitted("attributes") =
                    {n \in AttributeNames : InFieldset(n, enc_fieldset_arg)}
              /\ emitted("relationships") =
                    {n \in RelationshipNames : InFieldset(n, enc_fieldset_arg)}
              /\ "attributes" \in DOMAIN d => emitted("attributes") # {}
              /\ "relationships" \in DOMAIN d => emitted("relationships") # {}

-----------------------------------------------------------------------------
(* Relationship / ToOneRelationship / ToManyRelationship: pre-decode *)

RelSp == <<"data", "relationships", "author">>

\* A resource identifier object.
Identifier(type, id) == PyDict([type |-> Str(type), id |-> Str(id)])

\* Values of the data member of a relationship object.
DataValues ==
    {NoneVal, Str("x"),
     Identifier("people", "1"), Identifier("articles", "1"),
     PyDict([type |-> Str("people")]),
     PyList(<< >>),
     PyList(<<Identifier("people", "1")>>),
     PyList(<<Identifier("people", "1"), Identifier("articles", "2")>>),
     PyList(<<Identifier("people", "1"), PyDict([type |-> Str("people")])>>)}

MemberNames == {"data", "links", "meta", "extra"}

\* Wire values handed to a relationship's validate_pre_decode.
RelationshipWire ==
    {PyDict([m \in ms |-> PyDict(<< >>)]) : ms \in SUBSET (MemberNames \ {"data"})}
    \cup {PyDict([m \in ms \cup {"data"} |-> IF m = "data" THEN d ELSE PyDict(<< >>)]) :
            ms \in SUBSET (MemberNames \ {"data"}), d \in DataValues}
    \cup {PyList(<< >>), PyInt(1), NoneVal}

\* require_data as Relationship.__init__ takes it, line 494.
require_data == Str("always")

\* Relationship.validate_resource_identifier, lines 580-591.
validate_resource_identifier(foreign_types, data, ptr) ==
    IF data.t # "dict"
    THEN Raised("InvalidType", ptr, "Must be an object.")
    ELSE IF ~(HasKey(data, "type") /\ HasKey(data, "id"))
    THEN Raised("InvalidValue", ptr, "type and id")
    ELSE IF foreign_types # {} /\ data.v["type"].v \notin foreign_types
    THEN Raised("InvalidValue", ptr \o <<"type">>, "Unexpected type")
    ELSE Returned(NoneVal)

\* Relationship.validate_relationship_object, lines 603-619.
Relationship_validate_relationship_object(dereference, data, ptr) ==
    IF data.t # "dict"
    THEN Raised("InvalidType", ptr, "Must be an object.")
    ELSE IF DOMAIN data.v = {}
    THEN Raised("InvalidValue", ptr, "empty")
    ELSE IF ~(DOMAIN data.v \subseteq {"links", "data", "meta"})
    THEN Raised("InvalidValue", ptr, "Unexpected member")
    ELSE IF (dereference \/ Truthy(require_data)) /\ ~HasKey(data, "data")
    THEN Raised("InvalidValue", ptr, "data required")
    ELSE Returned(NoneVal)

\* ToOneRelationship.validate_relationship_object, lines 644-647: line 646
\* hands data, the relationship object, to validate_resource_identifier.
ToOne_validate_relationship_object(dereference, foreign_types, data, ptr) ==
    LET r == Relationship_validate_relationship_object(dereference, data, ptr)
    IN  IF r.exc # "none" THEN r
        ELSE IF HasKey(data, "data") /\ data.v["data"].t # "NoneType"
        THEN validate_resource_identifier(foreign_types, data, ptr \o <<"data">>)
        ELSE Returned(NoneVal)

\* "data" in x, line 785, for the wire values above.
ContainsData(x) ==
    CASE x.t = "dict" -> Returned(Bool(HasKey(x, "data")))
      [] x.t = "list" -> Returned(Bool(FALSE))
      [] OTHER -> Raised("TypeError", NoneSp, "not iterable")

\* The first item of enumerate(data) for a dict: one of its keys, a str.
FirstKey(data) == Str(CHOOSE k \in DOMAIN data.v : TRUE)

\* ToManyRelationship.validate_relationship_object, lines 785-793: the
\* method of the base class is not called; line 791 enumerates data, the
\* relationship object, whose items are its keys.  (InvalidType at line 789
\* is constructed with the keyword sp.)
ToMany_validate_relationship_object(foreign_types, data, ptr) ==
    LET has == ContainsData(data)
    IN  IF has.exc # "none" THEN has
        ELSE IF ~has.value.v THEN Returned(NoneVal)
        ELSE IF data.v["data"].t \notin {"list", "str", "tuple"}
        THEN Raised("InvalidType", ptr \o <<"data">>, "array")
        ELSE validate_resource_identifier(foreign_types, FirstKey(data),
                                          ptr \o <<"data", "0">>)

\* Relationship.validate_pre_decode, lines 622-624.
Relationship_validate_pre_decode(kind, dereference, foreign_types, data, ptr, ctx) ==
    LET r == IF kind = "to_one"
             THEN ToOne_validate_relationship_object(dereference, foreign_types,
                                                     data, ptr)
             ELSE ToMany_validate_relationship_object(foreign_types, data, ptr)
    IN  IF r.exc # "none" THEN r
        ELSE BaseField_validate(CodecField, "pre-decode", ptr, ctx)

RelRest ==
    /\ rel_pc = "idle"
    /\ rel_data = NoneVal
    /\ rel_result = NoResult

\* Relationship.__init__, lines 506-513.
RelInit ==
    /\ rel_kind \in {"to_one", "to_many"}
    /\ rel_dereference \in BOOLEAN
    /\ rel_foreign_types \in {{}, {"people"}}
    /\ RelRest

RelIdle ==
    /\ rel_kind = "to_one"
    /\ rel_dereference = TRUE
    /\ rel_foreign_types = {}
    /\ RelRest

\* <relationship>.validate_pre_decode(schema, data, sp, context) is called.
Relationship_validate ==
    /\ rel_pc = "idle"
    /\ \E d \in RelationshipWire : rel_data' = d
    /\ rel_result' = NoResult
    /\ rel_pc' = "validate_622"
    /\ UNCHANGED <<rel_kind, rel_dereference, rel_foreign_types>>
    /\ UNCHANGED notRel

Relationship_validate_622 ==
    /\ rel_pc = "validate_622"
    /\ rel_result' = Relationship_validate_pre_decode(
                        rel_kind, rel_dereference, rel_foreign_types, rel_data,
                        RelSp, Str("update"))
    /\ rel_pc' = "done"
    /\ UNCHANGED <<rel_kind, rel_dereference, rel_foreign_types, rel_data>>
    /\ UNCHANGED notRel

\* The caller goes on to its next call.
RelReturn ==
    /\ rel_pc = "done"
    /\ rel_pc' = "idle"
    /\ rel_data' = NoneVal
    /\ rel_result' = NoResult
    /\ UNCHANGED <<rel_kind, rel_dereference, rel_foreign_types>>
    /\ UNCHANGED notRel

RelNext ==
    \/ Relationship_validate
    \/ Relationship_validate_622
    \/ RelReturn

\* A resource identifier object with type and id, the type allowed.
WellFormedIdentifier(x) ==
    /\ x.t = "dict"
    /\ HasKey(x, "type")
    /\ HasKey(x, "id")
    /\ rel_foreign_types = {} \/ x.v["type"].v \in rel_foreign_types

\* The data member is a well-formed linkage for the kind of relationship.
WellFormedData(d) ==
    IF rel_kind = "to_one" THEN d.t = "NoneType" \/ WellFormedIdentifier(d)
    ELSE d.t = "list" /\ \A i \in 1..Len(d.v) : WellFormedIdentifier(d.v[i])

\* C19: pre-decode validation of a to-one or to-many relationship rejects a
\* wire value that is not a mapping (InvalidType), an empty mapping and a
\* mapping with a member other than data, links and meta (InvalidValue), and
\* accepts a mapping with allowed members whose data is well-formed linkage.
C19_RelationshipObjectShape ==
    rel_pc = "done" =>
        /\ rel_data.t # "dict" => rel_result.exc = "InvalidType"
        /\ (rel_data.t = "dict" /\ DOMAIN rel_data.v = {})
            => rel_result.exc = "InvalidValue"
        /\ (rel_data.t = "dict" /\ ~(DOMAIN rel_data.v \subseteq {"data", "links", "meta"}))
            => rel_result.exc = "InvalidValue"
        /\ (/\ rel_data.t = "dict"
            /\ DOMAIN rel_data.v \subseteq {"data", "links", "meta"}
            /\ HasKey(rel_data, "data")
            /\ WellFormedData(rel_data.v["data"]))
            => rel_result.exc = "none"

-----------------------------------------------------------------------------
(* BaseField.validator, validate_pre_decode, validate_post_decode *)

\* ---- bound: the validators registered on one field
MaxValidators == 2

Whens == {"pre-decode", "post-decode"}
ValidatorContexts == {"never", "always", "creation", "update"}

\* The argument context of a validation call: what schema.py passes
\* ("create", "update") and the name the field policies use ("creation").
CallContexts == {"create", "update", "creation"}

\* The loop reaches the validator function with when and context in
\* ("always", context) regardless of the method called.
Selected_any_when(validator, when, ctx) ==
    validator.context \in {"always", ctx}

\* Lines 261-264 and 282-285: the two continue tests of the loop.
Selected(validator, when, ctx) ==
    /\ validator.when = when
    /\ validator.context \in {"always", ctx}

ValRest ==
    /\ val_pc = "idle"
    /\ val_when = "pre-decode"
    /\ val_context = "update"
    /\ val_i = 0
    /\ val_log = << >>
    /\ val_result = NoResult

\* BaseField.__init__, line 151.
ValInit == fvalidators = << >> /\ ValRest

ValIdle == ValInit

\* BaseField.validator(f, when, context), lines 189-194; f is the n-th
\* function registered and raises what raises says when it is called.
validator ==
    /\ val_pc = "idle"
    /\ Len(fvalidators) < MaxValidators
    /\ \E when \in Whens, c \in ValidatorContexts, raises \in {"none", "InvalidValue"} :
        fvalidators' = Append(fvalidators,
            [validator |-> Len(fvalidators) + 1, when |-> when,
             context |-> c, raises |-> raises])
    /\ UNCHANGED <<val_pc, val_when, val_context, val_i, val_log, val_result>>
    /\ UNCHANGED notVal

\* field.validate_pre_decode / validate_post_decode(schema, data, sp,
\* context) is called.
validate ==
    /\ val_pc = "idle"
    /\ \E when \in Whens, c \in CallContexts :
        /\ val_when' = when
        /\ val_context' = c
    /\ val_i' = 1
    /\ val_log' = << >>
    /\ val_result' = NoResult
    /\ val_pc' = "loop"
    /\ UNCHANGED fvalidators
    /\ UNCHANGED notVal

\* One turn of the loop, lines 260-267 and 281-288, or its end, lines 268
\* and 289.
validate_loop ==
    /\ val_pc = "loop"
    /\ IF val_i > Len(fvalidators)
       THEN /\ val_result' = Returned(NoneVal)
            /\ val_pc' = "done"
            /\ UNCHANGED <<val_i, val_log>>
       ELSE LET v == fvalidators[val_i]
            IN  IF ~Selected(v, val_when, val_context)
                THEN /\ val_i' = val_i + 1
                     /\ UNCHANGED <<val_pc, val_log, val_result>>
                ELSE /\ val_log' = Append(val_log, v.validator)
                     /\ IF v.raises # "none"
                        THEN /\ val_result' = Raised(v.raises, NoneSp, "validator")
                             /\ val_pc' = "done"
                             /\ UNCHANGED val_i
                        ELSE /\ val_i' = val_i + 1
                             /\ UNCHANGED <<val_pc, val_result>>
    /\ UNCHANGED <<fvalidators, val_when, val_context>>
    /\ UNCHANGED notVal

\* The caller goes on.
ValReturn ==
    /\ val_pc = "done"
    /\ val_pc' = "idle"
    /\ val_when' = "pre-decode"
    /\ val_context' = "update"
    /\ val_i' = 0
    /\ val_log' = << >>
    /\ val_result' = NoResult
    /\ UNCHANGED fvalidators
    /\ UNCHANGED notVal

ValNext ==
    \/ validator
    \/ validate
    \/ validate_loop
    \/ ValReturn

\* The registered validators the claim selects for the call, in
\* registration order.
Matching ==
    SelectSeq(fvalidators,
              LAMBDA v : v.when = val_when /\ v.context \in {"always", val_context})

\* The positions in Matching of the validators that fail.
Failing == {i \in 1..Len(Matching) : Matching[i].raises # "none"}

\* The last validator to be called: the first failing one, or the last.
LastCalled ==
    IF Failing = {} THEN Len(Matching)
    ELSE CHOOSE i \in Failing : \A j \in Failing : i <= j

-----------------------------------------------------------------------------
(* Schema.update_relationship, add_relationship, remove_relationship *)

RelationshipCalls ==
    {"update_relationship", "add_relationship", "remove_relationship"}

\* The field author after Relationship.__init__ (BaseField.__init__ under
\* it) and SchemaMeta.__new__.
AuthorField ==
    [BaseField_init("", "", rcr_writable, "never")
     EXCEPT !.key = "author", !.name = "author", !.mapped_key = "author"]

AuthorSp == <<"data", "relationships", "author">>

\* Schema._validate_field_pre_decode, lines 456-470, for a field whose
\* validate_pre_decode ends as validated says.
_validate_field_pre_decode_of(field, data, ptr, ctxArg, validated) ==
    LET ctx == PyOr(ctxArg, crud)
        writable == PyIn(field.writable, <<Str("always"), ctx>>)
        required == PyIn(Str(field.required), <<Str("always"), ctx>>)
    IN  IF (~writable) /\ ptr # NoneSp
        THEN Raised("ValidationError", ptr, "readonly")
        ELSE IF required /\ PyIs(data, ptr # NoneSp)
        THEN Raised("InvalidValue", ptr, "required")
        ELSE IF ptr # NoneSp THEN validated
        ELSE Returned(NoneVal)

\* Schema._decode_field, lines 548-571, with BaseField.decode, lines 243-247.
_decode_field(field, data, ptr) == Returned(data)

\* Methods a Schema instance has (schema.py, class Schema).
SchemaMethods ==
    {"init_api", "context", "use_context", "id", "_encode_field",
     "encode_resource", "encode_relationship", "_validate_field_pre_decode",
     "validate_resource_pre_decode", "_decode_field", "decode_resource",
     "validate_resource_post_decode", "create_resource", "update_resource",
     "delete_resource", "update_relationship", "add_relationship",
     "remove_relationship", "query_collection", "query_resource",
     "query_relative", "query_relatives", "fetch_include"}

RcrRest ==
    /\ rcr_pc = "idle"
    /\ rcr_call = "none"
    /\ rcr_relname = ""
    /\ rcr_data = NoneVal
    /\ rcr_calls = << >>
    /\ rcr_result = NoResult

RcrInit ==
    /\ rcr_kind \in {"to_one", "to_many"}
    /\ rcr_writable \in {"always", "update", "never"}
    /\ RcrRest

RcrIdle ==
    /\ rcr_kind = "to_one"
    /\ rcr_writable = "always"
    /\ RcrRest

\* schema.<call>(relname, resource, data, sp) is called.
relationship_call ==
    /\ rcr_pc = "idle"
    /\ \E c \in RelationshipCalls, n \in {"author", "editor"}, d \in RelationshipWire :
        /\ rcr_call' = c
        /\ rcr_relname' = n
        /\ rcr_data' = d
    /\ rcr_calls' = << >>
    /\ rcr_result' = NoResult
    /\ rcr_pc' = "lookup"
    /\ UNCHANGED <<rcr_kind, rcr_writable>>
    /\ UNCHANGED notRcr

\* Lines 743, 773-774, 804-805: the field is looked up and, for add and
\* remove, asserted to be to-many.
relationship_743 ==
    /\ rcr_pc = "lookup"
    /\ IF rcr_relname # "author"
       THEN rcr_result' = Raised("KeyError", NoneSp, rcr_relname) /\ rcr_pc' = "done"
       ELSE IF rcr_call # "update_relationship" /\ rcr_kind # "to_many"
       THEN rcr_result' = Raised("AssertionError", NoneSp, "") /\ rcr_pc' = "done"
       ELSE rcr_result' = rcr_result /\ rcr_pc' = "validate"
    /\ UNCHANGED <<rcr_kind, rcr_writable, rcr_call, rcr_relname, rcr_data, rcr_calls>>
    /\ UNCHANGED notRcr

\* Lines 745, 776, 807: pre-decode validation of the field.
relationship_745 ==
    /\ rcr_pc = "validate"
    /\ LET r == _validate_field_pre_decode_of(AuthorField, rcr_data, AuthorSp,
                    Str("update"),
                    Relationship_validate_pre_decode(rcr_kind, TRUE, {}, rcr_data,
                                                     AuthorSp, Str("update")))
       IN  IF r.exc # "none"
           THEN rcr_result' = r /\ rcr_pc' = "done"
           ELSE rcr_result' = rcr_result /\ rcr_pc' = "decode"
    /\ rcr_calls' = Append(rcr_calls, "_validate_field_pre_decode")
    /\ UNCHANGED <<rcr_kind, rcr_writable, rcr_call, rcr_relname, rcr_data>>
    /\ UNCHANGED notRcr

\* Lines 746-747, 777-778, 808-809: the field is decoded, then
\* self._validate_field_post_decode is read, a method class Schema does not
\* define: AttributeError.
relationship_746 ==
    /\ rcr_pc = "decode"
    /\ _decode_field(AuthorField, rcr_data, AuthorSp).exc = "none"
    /\ "_validate_field_post_decode" \notin SchemaMethods \cup SchemaAttrs
    /\ rcr_calls' = Append(rcr_calls, "_decode_field")
    /\ rcr_result' = Raised("AttributeError", NoneSp, "_validate_field_post_decode")
    /\ rcr_pc' = "done"
    /\ UNCHANGED <<rcr_kind, rcr_writable, rcr_call, rcr_relname, rcr_data>>
    /\ UNCHANGED notRcr

\* The caller goes on.
RcrReturn ==
    /\ rcr_pc = "done"
    /\ rcr_pc' = "idle"
    /\ rcr_call' = "none"
    /\ rcr_relname' = ""
    /\ rcr_data' = NoneVal
    /\ rcr_calls' = << >>
    /\ rcr_result' = NoResult
    /\ UNCHANGED <<rcr_kind, rcr_writable>>
    /\ UNCHANGED notRcr

RcrNext ==
    \/ relationship_call
    \/ relationship_743
    \/ relationship_745
    \/ relationship_746
    \/ RcrReturn

\* The field method each call ends with.
FieldMethodOf(call) ==
    CASE call = "update_relationship" -> "set"
      [] call = "add_relationship" -> "add"
      [] OTHER -> "remove"

\* The relationship object is well formed for the kind of the field.
WellFormedRelationship(kind, data) ==
    /\ data.t = "dict"
    /\ DOMAIN data.v \subseteq {"data", "links", "meta"}
    /\ HasKey(data, "data")
    /\ LET d == data.v["data"]
           identifier(x) == x.t = "dict" /\ HasKey(x, "type") /\ HasKey(x, "id")
       IN  IF kind = "to_one" THEN d.t = "NoneType" \/ identifier(d)
           ELSE d.t = "list" /\ \A i \in 1..Len(d.v) : identifier(d.v[i])

\* C23: a finished update_relationship, add_relationship or
\* remove_relationship call on the relationship author, writable on update,
\* with a well-formed relationship object has run pre-decode validation,
\* decoding and post-decode validation and then called the field's set, add
\* or remove, in this order, and has returned; add and remove on a to-one
\* relationship are refused.
C23_RelationshipCallSteps ==
    (rcr_pc = "done" /\ rcr_relname = "author") =>
        /\ (rcr_call # "update_relationship" /\ rcr_kind = "to_one")
            => rcr_result.exc = "AssertionError"
        /\ (/\ rcr_call = "update_relationship" \/ rcr_kind = "to_many"
            /\ rcr_writable = "update"
            /\ WellFormedRelationship(rcr_kind, rcr_data))
            => /\ rcr_result.exc = "none"
               /\ rcr_calls = <<"_validate_field_pre_decode", "_decode_field",
                                "_validate_field_post_decode",
                                FieldMethodOf(rcr_call)>>

-----------------------------------------------------------------------------
(* SchemaMeta.__new__: classification, source pointers, pointer index *)

\* The fields a class body may declare, in the order it declares them:
\*   title = Attribute()           rev = Attribute(meta=True)
\*   author = ToOneRelationship()  self = Link()
\*   plain = Link(link_of="")      author_related = Link(link_of="author")
FieldOrder == <<"title", "rev", "author", "self", "plain", "author_related">>

ClassBodies ==
    {SelectSeq(FieldOrder, LAMBDA k : k \in ks) :
        ks \in SUBSET {FieldOrder[i] : i \in 1..Len(FieldOrder)}}

\* The field object a declaration creates: the attributes assigned by
\* BaseField.__init__ (lines 129-151), Attribute.__init__ (line 444),
\* Link.__init__ (lines 375-377: link_of defaults to "<resource>") and
\* Relationship.__init__ (lines 501-521: both default links are created as
\* Link("self", ...) and Link("related", ...), the text being href, so both
\* are stored in links under the name "").
FieldObject(key) ==
    LET kind == CASE key \in {"title", "rev"} -> "Attribute"
                  [] key = "author" -> "Relationship"
                  [] OTHER -> "Link"
    IN  [kind |-> kind,
         key |-> None,
         name |-> "",
         sp |-> NoneSp,
         meta |-> key = "rev",
         link_of |-> CASE key = "self" -> "<resource>"
                       [] key = "author_related" -> "author"
                       [] OTHER -> "",
         links |-> IF kind = "Relationship" THEN {""} ELSE {}]

\* isinstance(field, LinksObjectMixin)
IsLinksObject(field) == field.kind = "Relationship"

\* Lines 124-129: every field of the class body gets its key and its name.
SchemaMeta_new_124(body) ==
    [k \in {body[i] : i \in 1..Len(body)} |->
        [FieldObject(k) EXCEPT !.key = k, !.name = k]]

\* Lines 161-164 for the keys in order: a field with a link_of is added to
\* the links of fields_by_key[link_of].
RECURSIVE SchemaMeta_new_161(_, _)
SchemaMeta_new_161(fields, order) ==
    IF order = << >> THEN [result |-> Returned(NoneVal), fields |-> fields]
    ELSE LET field == fields[Head(order)]
         IN  IF field.link_of = ""
             THEN SchemaMeta_new_161(fields, Tail(order))
             ELSE IF field.link_of \notin DOMAIN fields
             THEN [result |-> Raised("KeyError", NoneSp, field.link_of),
                   fields |-> fields]
             ELSE IF ~IsLinksObject(fields[field.link_of])
             THEN [result |-> Raised("AttributeError", NoneSp, "add_link"),
                   fields |-> fields]
             ELSE SchemaMeta_new_161(
                    [fields EXCEPT ![field.link_of].links = @ \cup {field.name}],
                    Tail(order))

\* Attributes of the metaclass SchemaMeta (lines 39-232) and of type.
SchemaMetaAttrs ==
    {"_assign_sp", "_sp_to_field", "__new__", "__init__", "__call__"}

\* SchemaMeta._assign_sp(fields, sp), lines 46-49, for the keys in order.
RECURSIVE _assign_sp(_, _, _)
_assign_sp(fields, order, prefix) ==
    IF order = << >> THEN [result |-> Returned(NoneVal), fields |-> fields]
    ELSE LET k == Head(order)
             assigned == [fields EXCEPT ![k].sp = <<prefix, fields[k].name>>]
         IN  IF IsLinksObject(fields[k])
             THEN IF "_assign_source_pointer" \notin SchemaMetaAttrs
                  THEN [result |-> Raised("AttributeError", NoneSp,
                                          "_assign_source_pointer"),
                        fields |-> assigned]
                  ELSE _assign_sp(assigned, Tail(order), prefix)
             ELSE _assign_sp(assigned, Tail(order), prefix)

\* d[key] = value on an ordered dict held as a sequence of entries.
OrderedPut(d, ptr, key) ==
    IF \E i \in 1..Len(d) : d[i].sp = ptr
    THEN [i \in 1..Len(d) |-> IF d[i].sp = ptr THEN [sp |-> ptr, key |-> key]
                              ELSE d[i]]
    ELSE Append(d, [sp |-> ptr, key |-> key])

\* SchemaMeta._sp_to_field(fields), lines 57-62, for the keys in order,
\* from the ordered dict d.
RECURSIVE _sp_to_field(_, _, _)
_sp_to_field(fields, order, d) ==
    IF order = << >> THEN Returned(d)
    ELSE IF IsLinksObject(fields[Head(order)])
              /\ "_collect_fields" \notin SchemaMetaAttrs
    THEN Raised("AttributeError", NoneSp, "_collect_fields")
    ELSE _sp_to_field(fields, Tail(order),
                      OrderedPut(d, fields[Head(order)].sp, Head(order)))

\* No class attribute stored yet.
NoAttrs ==
    [_japi_attributes |-> << >>, _japi_relationships |-> << >>,
     _japi_links |-> << >>, _japi_meta |-> << >>, _japi_toplevel |-> << >>,
     _fields_by_sp |-> << >>]

\* Lines 167-211: the four partitions, their source pointers, the list of
\* top-level fields and the pointer index.  Line 198 assigns the /meta
\* pointers to japi_links.values().
SchemaMeta_new_167(fields, body) ==
    LET japi_attributes ==
            SelectSeq(body, LAMBDA k : LET f == fields[k] IN f.kind = "Attribute" /\ ~f.meta)
        a == _assign_sp(fields, japi_attributes, "attributes")
        japi_relationships ==
            SelectSeq(body, LAMBDA k : LET f == a.fields[k] IN f.kind = "Relationship")
        r == _assign_sp(a.fields, japi_relationships, "relationships")
        japi_links ==
            SelectSeq(body, LAMBDA k : LET f == r.fields[k] IN f.kind = "Link" /\ f.link_of = "")
        l == _assign_sp(r.fields, japi_links, "links")
        japi_meta ==
            SelectSeq(body, LAMBDA k : LET f == l.fields[k] IN f.kind = "Attribute" /\ f.meta)
        m == _assign_sp(l.fields, japi_links, "meta")
        japi_toplevel ==
            japi_attributes \o japi_relationships \o japi_links \o japi_meta
        fields_by_sp == _sp_to_field(m.fields, japi_toplevel, << >>)
        attrs == [_japi_attributes |-> japi_attributes,
                  _japi_relationships |-> japi_relationships,
                  _japi_links |-> japi_links,
                  _japi_meta |-> japi_meta,
                  _japi_toplevel |-> japi_toplevel,
                  _fields_by_sp |-> << >>]
    IN  IF a.result.exc # "none"
        THEN [result |-> a.result, fields |-> a.fields, attrs |-> NoAttrs]
        ELSE IF r.result.exc # "none"
        THEN [result |-> r.result, fields |-> r.fields, attrs |-> NoAttrs]
        ELSE IF l.result.exc # "none"
        THEN [result |-> l.result, fields |-> l.fields, attrs |-> NoAttrs]
        ELSE IF m.result.exc # "none"
        THEN [result |-> m.result, fields |-> m.fields, attrs |-> NoAttrs]
        ELSE IF fields_by_sp.exc # "none"
        THEN [result |-> fields_by_sp, fields |-> m.fields, attrs |-> NoAttrs]
        ELSE [result |-> Returned(NoneVal), fields |-> m.fields,
              attrs |-> [attrs EXCEPT !._fields_by_sp = fields_by_sp.value]]

ClsRest ==
    /\ cls_body = << >>
    /\ cls_pc = "idle"
    /\ cls_fields = << >>
    /\ cls_attrs = NoAttrs
    /\ cls_result = NoResult

ClsInit == ClsRest

ClsIdle == ClsRest

\* A class statement with base Schema is executed: its body is evaluated
\* and SchemaMeta.__new__ is entered; lines 115-129.
class_statement ==
    /\ cls_pc = "idle"
    /\ \E body \in ClassBodies :
        /\ cls_body' = body
        /\ cls_fields' = SchemaMeta_new_124(body)
    /\ cls_attrs' = NoAttrs
    /\ cls_result' = NoResult
    /\ cls_pc' = "new_161"
    /\ UNCHANGED notCls

\* Lines 161-164.
class_new_161 ==
    /\ cls_pc = "new_161"
    /\ LET r == SchemaMeta_new_161(cls_fields, cls_body)
       IN  /\ cls_fields' = r.fields
           /\ IF r.result.exc # "none"
              THEN cls_result' = r.result /\ cls_pc' = "done"
              ELSE cls_result' = cls_result /\ cls_pc' = "new_167"
    /\ UNCHANGED <<cls_body, cls_attrs>>
    /\ UNCHANGED notCls

\* Lines 167-217.
class_new_167 ==
    /\ cls_pc = "new_167"
    /\ LET r == SchemaMeta_new_167(cls_fields, cls_body)
       IN  /\ cls_fields' = r.fields
           /\ cls_attrs' = r.attrs
           /\ cls_result' = r.result
    /\ cls_pc' = "done"
    /\ UNCHANGED cls_body
    /\ UNCHANGED notCls

\* The module goes on to its next class statement.
ClsReturn ==
    /\ cls_pc = "done"
    /\ cls_body' = << >>
    /\ cls_pc' = "idle"
    /\ cls_fields' = << >>
    /\ cls_attrs' = NoAttrs
    /\ cls_result' = NoResult
    /\ UNCHANGED notCls

ClsNext ==
    \/ class_statement
    \/ class_new_161
    \/ class_new_167
    \/ ClsReturn

\* The keys held by a sequence of keys.
KeySet(q) == {q[i] : i \in 1..Len(q)}

Declared == KeySet(cls_body)

\* C24: when a class statement is over, the schema is defined and each
\* declared field is in exactly one place: title in the attributes
\* partition, rev in the meta partition, author in the relationships
\* partition, the links self and plain (no referent) in the top-level links
\* partition, and author_related in the links of author and in no
\* partition.
C24_FieldsClassified ==
    cls_pc = "done" =>
        /\ cls_result.exc = "none"
        /\ KeySet(cls_attrs._japi_attributes) = Declared \cap {"title"}
        /\ KeySet(cls_attrs._japi_meta) = Declared \cap {"rev"}
        /\ KeySet(cls_attrs._japi_relationships) = Declared \cap {"author"}
        /\ KeySet(cls_attrs._japi_links) = Declared \cap {"self", "plain"}
        /\ "author_related" \in Declared
            => "author_related" \in cls_fields["author"].links

\* C25: when a class statement is over, the schema is defined, the source
\* pointer of the attribute title is /attributes/title, of the relationship
\* author /relationships/author and of the meta attribute rev /meta/rev, the
\* pointer of the nested link author_related is the pointer of author
\* extended by the link's name, and no field of a partition is without a
\* source pointer.
C25_SourcePointers ==
    cls_pc = "done" =>
        /\ cls_result.exc = "none"
        /\ "title" \in Declared => cls_fields["title"].sp = <<"attributes", "title">>
        /\ "author" \in Declared
            => cls_fields["author"].sp = <<"relationships", "author">>
        /\ "rev" \in Declared => cls_fields["rev"].sp = <<"meta", "rev">>
        /\ "author_related" \in Declared
            => cls_fields["author_related"].sp
                = Append(cls_fields["author"].sp, "author_related")
        /\ \A k \in KeySet(cls_attrs._japi_toplevel) : cls_fields[k].sp # NoneSp

\* The position of the entry for key in the pointer index, 0 if none.
IndexOf(key) ==
    LET d == cls_attrs._fields_by_sp
    IN  IF \E i \in 1..Len(d) : d[i].key = key
        THEN CHOOSE i \in 1..Len(d) : d[i].key = key
        ELSE 0

\* C26: when the class statement of a schema with the relationship author
\* and its nested link author_related is over, the schema is defined and
\* the pointer index lists author_related, and lists it before author.
C26_ChildrenBeforeParents ==
    (cls_pc = "done" /\ {"author", "author_related"} \subseteq Declared) =>
        /\ cls_result.exc = "none"
        /\ IndexOf("author_related") > 0
        /\ IndexOf("author_related") < IndexOf("author")

-----------------------------------------------------------------------------
(* fields.List and fields.Dict: decode *)

\* ---- bound: the elements of a wire list, the members of a wire object
MaxItems == 2

InnerTypes == {"Integer", "Float", "String"}

\* Wire values of an element.
ElementWire == {PyInt(1), PyInt(2), Str("x")}

\* The wire data as the comprehension sees it, an item being a token (the
\* index in a list, the key in an object) and a value: enumerate(data),
\* line 519, and data.items(), line 483.
ListItems ==
    {[i \in 1..Len(e) |-> [token |-> PyInt(i - 1), value |-> e[i]]] :
        e \in UNION {[1..n -> ElementWire] : n \in 0..MaxItems}}

DictItems ==
    {q \in UNION {[1..n -> [token : {Str("a"), Str("b")}, value : ElementWire]] :
                    n \in 0..MaxItems} :
        \A i, j \in 1..Len(q) : i # j => q[i].token # q[j].token}

\* What one turn of the comprehension hands to self.field.decode.  List,
\* line 519: "for item, i in enumerate(data)" binds item to the index and i
\* to the element, and decodes item with the pointer sp/i.  Dict,
\* lines 481-484: the value is decoded with the pointer sp/key.
InnerCall(kind, it) ==
    IF kind = "List"
    THEN [data |-> it.token, token |-> it.value]
    ELSE [data |-> it.value, token |-> it.token]

CmpRest ==
    /\ cmp_pc = "idle"
    /\ cmp_items = << >>
    /\ cmp_i = 0
    /\ cmp_calls = << >>
    /\ cmp_out = << >>
    /\ cmp_result = NoResult

\* Dict.__init__ / List.__init__, lines 475-478 and 512-515.
CmpInit ==
    /\ cmp_kind \in {"List", "Dict"}
    /\ cmp_inner \in InnerTypes
    /\ CmpRest

CmpIdle ==
    /\ cmp_kind = "List"
    /\ cmp_inner = "String"
    /\ CmpRest

\* field.decode(schema, data, sp) is called.
composite_decode ==
    /\ cmp_pc = "idle"
    /\ \E d \in (IF cmp_kind = "List" THEN ListItems ELSE DictItems) :
        cmp_items' = d
    /\ cmp_i' = 1
    /\ cmp_calls' = << >>
    /\ cmp_out' = << >>
    /\ cmp_result' = NoResult
    /\ cmp_pc' = "loop"
    /\ UNCHANGED <<cmp_kind, cmp_inner>>
    /\ UNCHANGED notCmp

\* One turn of the comprehension, or its end: the list or dict is returned.
composite_loop ==
    /\ cmp_pc = "loop"
    /\ IF cmp_i > Len(cmp_items)
       THEN /\ cmp_result' = Returned(IF cmp_kind = "List" THEN PyList(cmp_out)
                                      ELSE PyDict(cmp_out))
            /\ cmp_pc' = "done"
            /\ UNCHANGED <<cmp_i, cmp_calls, cmp_out>>
       ELSE LET it == cmp_items[cmp_i]
                call == InnerCall(cmp_kind, it)
                r == Decode(cmp_inner, call.data)
            IN  /\ cmp_calls' = Append(cmp_calls, call)
                /\ IF r.exc # "none"
                   THEN /\ cmp_result' = r
                        /\ cmp_pc' = "done"
                        /\ UNCHANGED <<cmp_i, cmp_out>>
                   ELSE /\ cmp_out' = Append(cmp_out, [token |-> it.token,
                                                       value |-> r.value])
                        /\ cmp_i' = cmp_i + 1
                        /\ UNCHANGED <<cmp_pc, cmp_result>>
    /\ UNCHANGED <<cmp_kind, cmp_inner, cmp_items>>
    /\ UNCHANGED notCmp

\* The caller goes on.
CmpReturn ==
    /\ cmp_pc = "done"
    /\ cmp_pc' = "idle"
    /\ cmp_items' = << >>
    /\ cmp_i' = 0
    /\ cmp_calls' = << >>
    /\ cmp_out' = << >>
    /\ cmp_result' = NoResult
    /\ UNCHANGED <<cmp_kind, cmp_inner>>
    /\ UNCHANGED notCmp

CmpNext ==
    \/ composite_decode
    \/ composite_loop
    \/ CmpReturn

\* The positions of the items whose value the inner field cannot decode.
Undecodable ==
    {i \in 1..Len(cmp_items) : Decode(cmp_inner, cmp_items[i].value).exc # "none"}

\* The last item the claim has decoded: the first undecodable one, or the
\* last.
LastDecoded ==
    IF Undecodable = {} THEN Len(cmp_items)
    ELSE CHOOSE i \in Undecodable : \A j \in Undecodable : i <= j

\* C28: when List.decode or Dict.decode is over, the inner field's decode
\* has been called for the items in order, each with the item's value and
\* the pointer sp/index or sp/key, up to and including the first item it
\* cannot decode; if there is none, the result holds for every index or key
\* the inner decode of its value, in the same order, and otherwise the call
\* ends with the failure of that item.
C28_CompositeDecode ==
    cmp_pc = "done" =>
        /\ cmp_calls = [i \in 1..LastDecoded |->
                            [data |-> cmp_items[i].value,
                             token |-> cmp_items[i].token]]
        /\ IF Undecodable = {}
           THEN /\ cmp_result.exc = "none"
                /\ cmp_result.value.v =
                    [i \in 1..Len(cmp_items) |->
                        [token |-> cmp_items[i].token,
                         value |-> Decode(cmp_inner, cmp_items[i].value).value]]
           ELSE cmp_result.exc = Decode(cmp_inner, cmp_items[LastDecoded].value).exc

-----------------------------------------------------------------------------
(* Specifications *)

InitInclude == IncInit /\ SchIdle /\ FldIdle /\ StrIdle /\ CdcIdle /\ EidIdle /\ CtxIdle /\ MetaIdle /\ EncIdle /\ RelIdle /\ ValIdle /\ RcrIdle /\ ClsIdle /\ CmpIdle
SpecInclude == InitInclude /\ [][IncNext]_vars

InitSchema == IncIdle /\ SchInit /\ FldIdle /\ StrIdle /\ CdcIdle /\ EidIdle /\ CtxIdle /\ MetaIdle /\ EncIdle /\ RelIdle /\ ValIdle /\ RcrIdle /\ ClsIdle /\ CmpIdle
SpecSchema == InitSchema /\ [][SchNext]_vars

InitField == IncIdle /\ SchIdle /\ FldInit /\ StrIdle /\ CdcIdle /\ EidIdle /\ CtxIdle /\ MetaIdle /\ EncIdle /\ RelIdle /\ ValIdle /\ RcrIdle /\ ClsIdle /\ CmpIdle
SpecField == InitField /\ [][FldNext]_vars

InitStr == IncIdle /\ SchIdle /\ FldIdle /\ StrInit /\ CdcIdle /\ EidIdle /\ CtxIdle /\ MetaIdle /\ EncIdle /\ RelIdle /\ ValIdle /\ RcrIdle /\ ClsIdle /\ CmpIdle
SpecStr == InitStr /\ [][StrNext]_vars

InitCdc == IncIdle /\ SchIdle /\ FldIdle /\ StrIdle /\ CdcInit /\ EidIdle /\ CtxIdle /\ MetaIdle /\ EncIdle /\ RelIdle /\ ValIdle /\ RcrIdle /\ ClsIdle /\ CmpIdle
SpecCdc == InitCdc /\ [][CdcNext]_vars

InitEid == IncIdle /\ SchIdle /\ FldIdle /\ StrIdle /\ CdcIdle /\ EidInit /\ CtxIdle /\ MetaIdle /\ EncIdle /\ RelIdle /\ ValIdle /\ RcrIdle /\ ClsIdle /\ CmpIdle
SpecEid == InitEid /\ [][EidNext]_vars

InitCtx == IncIdle /\ SchIdle /\ FldIdle /\ StrIdle /\ CdcIdle /\ EidIdle /\ CtxInit /\ MetaIdle /\ EncIdle /\ RelIdle /\ ValIdle /\ RcrIdle /\ ClsIdle /\ CmpIdle
SpecCtx == InitCtx /\ [][CtxNext]_vars

InitMeta == IncIdle /\ SchIdle /\ FldIdle /\ StrIdle /\ CdcIdle /\ EidIdle /\ CtxIdle /\ MetaInit /\ EncIdle /\ RelIdle /\ ValIdle /\ RcrIdle /\ ClsIdle /\ CmpIdle
SpecMeta == InitMeta /\ [][MetaNext]_vars

InitEnc == IncIdle /\ SchIdle /\ FldIdle /\ StrIdle /\ CdcIdle /\ EidIdle /\ CtxIdle /\ MetaIdle /\ EncInit /\ RelIdle /\ ValIdle /\ RcrIdle /\ ClsIdle /\ CmpIdle
SpecEnc == InitEnc /\ [][EncNext]_vars

InitRel == IncIdle /\ SchIdle /\ FldIdle /\ StrIdle /\ CdcIdle /\ EidIdle /\ CtxIdle /\ MetaIdle /\ EncIdle /\ RelInit /\ ValIdle /\ RcrIdle /\ ClsIdle /\ CmpIdle
SpecRel == InitRel /\ [][RelNext]_vars

InitVal == IncIdle /\ SchIdle /\ FldIdle /\ StrIdle /\ CdcIdle /\ EidIdle /\ CtxIdle /\ MetaIdle /\ EncIdle /\ RelIdle /\ ValInit /\ RcrIdle /\ ClsIdle /\ CmpIdle
SpecVal == InitVal /\ [][ValNext]_vars

InitRcr == IncIdle /\ SchIdle /\ FldIdle /\ StrIdle /\ CdcIdle /\ EidIdle /\ CtxIdle /\ MetaIdle /\ EncIdle /\ RelIdle /\ ValIdle /\ RcrInit /\ ClsIdle /\ CmpIdle
SpecRcr == InitRcr /\ [][RcrNext]_vars

InitCls == IncIdle /\ SchIdle /\ FldIdle /\ StrIdle /\ CdcIdle /\ EidIdle /\ CtxIdle /\ MetaIdle /\ EncIdle /\ RelIdle /\ ValIdle /\ RcrIdle /\ ClsInit /\ CmpIdle
SpecCls == InitCls /\ [][ClsNext]_vars

InitCmp == IncIdle /\ SchIdle /\ FldIdle /\ StrIdle /\ CdcIdle /\ EidIdle /\ CtxIdle /\ MetaIdle /\ EncIdle /\ RelIdle /\ ValIdle /\ RcrIdle /\ ClsIdle /\ CmpInit
SpecCmp == InitCmp /\ [][CmpNext]_vars

\* All components together, from their rest states.
Init == IncIdle /\ SchIdle /\ FldIdle /\ StrIdle /\ CdcIdle /\ EidIdle /\ CtxIdle /\ MetaIdle /\ EncIdle /\ RelIdle /\ ValIdle /\ RcrIdle /\ ClsIdle /\ CmpIdle
Next == IncNext \/ SchNext \/ FldNext \/ StrNext \/ CdcNext \/ EidNext \/ CtxNext \/ MetaNext \/ EncNext \/ RelNext \/ ValNext \/ RcrNext \/ ClsNext \/ CmpNext
Spec == Init /\ [][Next]_vars

====
